---- MODULE Spec2Model ----
(***************************************************************************)
(* A model of rdxusb: the event-loop registry (src/src/event_loop.rs),    *)
(* the full-speed host session (src/src/host.rs), the frame codec         *)
(* (src/rdxusb-protocol/src/lib.rs) and the C entry points                 *)
(* (src/src/c_api.rs).                                                      *)
(*                                                                         *)
(* Foreign calls run under the registry mutex and are one action each.     *)
(* A poller task is a small program counter per handle: every stretch of   *)
(* device_poller between two awaits (or between an await and a lock        *)
(* acquisition) is one action.  The tokio runtime is multi-threaded, so    *)
(* poller actions interleave freely with foreign calls.                    *)
(***************************************************************************)
EXTENDS Integers, Sequences, FiniteSets, TLC

VARIABLES
    devices,      \* EventLoop.devices : handle -> Device
    next_handle,  \* EventLoop.next_handle
    poisoned,     \* EVENT_LOOP mutex poisoned (a task panicked holding it)
    poller,       \* handle -> state of the device_poller task spawned for it
    watch,        \* handle -> the slot's watch channel (sender + receiver)
    shutdown,     \* handle -> the slot's Notify holds a stored permit
    sess,         \* handle -> the session the poller currently owns
    attached,     \* USB devices currently on the bus (environment)
    iters,        \* DEVICE_INFOS: the device iterators (c_api.rs)
    codec,        \* a frame being converted to its public form and back
    lock,         \* the owner of the EVENT_LOOP mutex
    calls,        \* foreign threads inside a read_packets call
    hist          \* history: handles issued / closed, per-session frame logs

vars == <<devices, next_handle, poisoned, poller, watch, shutdown, sess,
          attached, iters, codec, lock, calls, hist>>

(***************************************************************************)
(* Bounds of the model.                                                    *)
(***************************************************************************)
MaxHandles == 2      \* open_device creates at most this many slots
MaxIn == 3           \* bulk-IN completions the environment delivers in all
MaxWrites == 3       \* write_packets calls that reach a session, in all
MaxQueue == 2        \* rx_q_size a program passes to RdxUsbFsHost::open_device
MaxIters == 2        \* rdxusb_new_device_iterator allocates at most this many
NThreads == 2        \* foreign threads that call read_packets concurrently

(***************************************************************************)
(* Program constants.                                                      *)
(***************************************************************************)
ERR_NONE == 0
ERR_EVENT_LOOP_CRASHED == -100
ERR_CANNOT_LIST_DEVICES == -101
ERR_DEVICE_ITER_INVALID == -102
ERR_DEVICE_ITER_IDX_OUT_OF_RANGE == -103
ERR_NULL_PTR == -104     \* used by c_api.rs; EventLoopError does not declare it
ERR_DEVICE_NOT_OPENED == -200
ERR_DEVICE_NOT_CONNECTED == -201
ERR_CHANNEL_OUT_OF_RANGE == -202
FsDataLen == 48          \* RdxUsbFsPacket.data
PublicDataLen == 64      \* RdxUsbPacket.data
PollerQueueSize == 32    \* device_poller: open_device(dev_info, 32), write_poller(32)
PollerTransfers == 32    \* device_poller: host.poll(32, true)
PollerAwaitOnFull == TRUE
TestBufSize == 48        \* rdxusb-event-test: rdxusb_open_device(.., false, 48)

\* Option<T>: None is the empty sequence, Some(x) a one-element sequence.
None == <<>>
Some(x) == <<x>>
IsSome(o) == o # <<>>
Unwrap(o) == o[1]

(***************************************************************************)
(* Frame codec (rdxusb-protocol).                                          *)
(***************************************************************************)
\* A u32 is kept as its four bytes, least significant first (the order of
\* the wire): <<b0, b1, b2, b3>> is b0 + 2^8 b1 + 2^16 b2 + 2^24 b3.
BitAnd8(a, b) ==
    LET RECURSIVE And(_, _, _)
        And(x, y, k) ==
            IF k = 0 THEN 0
            ELSE (x % 2) * (y % 2) + 2 * And(x \div 2, y \div 2, k - 1)
    IN  And(a, b, 8)

\* a & b on u32
BitAnd32(a, b) == [i \in 1..4 |-> BitAnd8(a[i], b[i])]

Zero32 == <<0, 0, 0, 0>>
MESSAGE_ARB_ID_EXT == <<0, 0, 0, 128>>       \* 0x80000000
MESSAGE_ARB_ID_RTR == <<0, 0, 0, 64>>        \* 0x40000000
MESSAGE_ARB_ID_DEVICE == <<0, 0, 0, 32>>     \* 0x20000000
IdMask == <<255, 255, 255, 31>>              \* 0x1fff_ffff

\* RdxUsbFsPacket::id, extended, rtr, device
effective_id(pkt) == BitAnd32(pkt.arb_id, IdMask)
is_extended(pkt) == BitAnd32(pkt.arb_id, MESSAGE_ARB_ID_EXT) # Zero32
is_rtr(pkt) == BitAnd32(pkt.arb_id, MESSAGE_ARB_ID_RTR) # Zero32
is_device(pkt) == BitAnd32(pkt.arb_id, MESSAGE_ARB_ID_DEVICE) # Zero32

\* From<RdxUsbFsPacket> for RdxUsbPacket: copy 48 bytes, zero the rest
\* (ToPublic).
\* A conversion to the public form that copies only the first dlc bytes.
ToPublicShort(value) ==
    [timestamp_ns |-> value.timestamp_ns,
     arb_id       |-> value.arb_id,
     dlc          |-> value.dlc,
     channel      |-> value.channel,
     flags        |-> value.flags,
     data         |-> [i \in 1..PublicDataLen |->
                          IF i <= value.dlc /\ i <= FsDataLen THEN value.data[i] ELSE 0]]

ToPublic(value) ==
    [timestamp_ns |-> value.timestamp_ns,
     arb_id       |-> value.arb_id,
     dlc          |-> value.dlc,
     channel      |-> value.channel,
     flags        |-> value.flags,
     data         |-> [i \in 1..PublicDataLen |->
                          IF i <= FsDataLen THEN value.data[i] ELSE 0]]

\* TryFrom<RdxUsbPacket> for RdxUsbFsPacket: Err(value) iff dlc > 48,
\* otherwise only the first dlc bytes are copied.
FromPublicOk(value) == ~(value.dlc > FsDataLen)

\* A conversion that copies all 48 data bytes whatever dlc is.
FromPublicAll(value) ==
    [timestamp_ns |-> value.timestamp_ns,
     arb_id       |-> value.arb_id,
     dlc          |-> value.dlc,
     channel      |-> value.channel,
     flags        |-> value.flags,
     data         |-> [i \in 1..FsDataLen |-> value.data[i]]]

FromPublic(value) ==
    [timestamp_ns |-> value.timestamp_ns,
     arb_id       |-> value.arb_id,
     dlc          |-> value.dlc,
     channel      |-> value.channel,
     flags        |-> value.flags,
     data         |-> [i \in 1..FsDataLen |->
                          IF i <= value.dlc THEN value.data[i] ELSE 0]]

\* TryFrom::try_from as a Result: Ok(frame) or Err(value).
TryFromPublic(value) ==
    IF FromPublicOk(value)
    THEN [ok |-> TRUE, frame |-> FromPublic(value)]
    ELSE [ok |-> FALSE, frame |-> value]

(***************************************************************************)
(* Inputs.                                                                 *)
(***************************************************************************)
\* The arbitration ids of the frames: id 0x123 with the flag bits varying
\* from frame to frame (0x80000123, 0x40000123, 0x20000123, then the other
\* combinations with the id 0x1f000123).
ArbId(tag) ==
    LET top == <<4, 2, 1, 7, 6, 5, 3, 0>>[((tag + 7) % 8) + 1]
    IN  <<35, 1, 0, 32 * top + (IF tag > 3 THEN 31 ELSE 0)>>

\* A wire frame as the device sends it: the timestamp is the device's
\* monotonic clock, bytes beyond dlc are whatever the device left there.
WireFrame(ts, ch, dlc) ==
    [timestamp_ns |-> ts,
     arb_id       |-> ArbId(ts),
     dlc          |-> dlc,
     channel      |-> ch,
     flags        |-> 0,
     data         |-> [i \in 1..FsDataLen |-> IF i <= dlc THEN 170 ELSE 85]]

\* A public frame as a foreign caller passes it to write_packets.
PublicFrame(tag, dlc) ==
    [timestamp_ns |-> tag,
     arb_id       |-> ArbId(tag),
     dlc          |-> dlc,
     channel      |-> 0,
     flags        |-> 0,
     data         |-> [i \in 1..PublicDataLen |-> IF i <= dlc THEN 170 ELSE 85]]

Vids == {5840}                 \* 0x16D0
Pids == {4728}                 \* 0x1278
Serials == {"A", "B"}

\* nusb::DeviceInfo of the devices that may be on the bus, with what the
\* DeviceInfo control request of each reports.
UsbDevices ==
    { [id |-> 1, vid |-> 5840, pid |-> 4728, serial |-> Some("A"), n_channels |-> 1],
      [id |-> 2, vid |-> 5840, pid |-> 4728, serial |-> Some("B"), n_channels |-> 0] }

Handles == 0..(MaxHandles - 1)

\* The tasks that own a session: the device_poller of each handle, and one
\* task of a program that drives RdxUsbFsHost itself (rdxusb-test).
HostTask == MaxHandles
Tasks == Handles \cup {HostTask}

\* Foreign threads, and the owners of the registry mutex: a poller task
\* (its handle), a foreign thread, or nobody.
Threads == (MaxHandles + 1)..(MaxHandles + NThreads)
NoOwner == -1

(***************************************************************************)
(* Bounded queues (async_ringbuf AsyncHeapRb::new(cap).split()).           *)
(***************************************************************************)
Range(f) == {f[i] : i \in DOMAIN f}

IsFull(q, cap) == Len(q) >= cap

\* A queue that takes new items at the front.
PushFront(q, item) == <<item>> \o q

\* Producer::push / try_push with room: the item goes to the back.
Push(q, item) == Append(q, item)

\* Consumer::try_pop on a non-empty queue: what it returns, what is left.
Front(q) == Head(q)

\* A pop that leaves the item in the queue.
PopKeep(q) == q

Pop(q) == Tail(q)

(***************************************************************************)
(* Device (one registered slot) and its matching rules.                    *)
(***************************************************************************)
matches(device, vid, pid, serial_number) ==
    /\ device.vid = vid
    /\ device.pid = pid
    /\ IF IsSome(device.serial_number)
       THEN IsSome(serial_number) /\ Unwrap(serial_number) = Unwrap(device.serial_number)
       ELSE TRUE

\* A match that does not look at the serial number.
MatchesAnySerial(device, info) ==
    /\ device.vid = info.vid
    /\ device.pid = info.pid

matches_device_info(device, info) ==
    /\ device.vid = info.vid
    /\ device.pid = info.pid
    /\ IF IsSome(device.serial_number)
       THEN IsSome(info.serial) /\ Unwrap(device.serial_number) = Unwrap(info.serial)
       ELSE TRUE

\* The registry's end of a session is installed: Device.handle is Some.
Connected(devs, h) == h \in DOMAIN devs /\ IsSome(devs[h].handle)

(***************************************************************************)
(* Sessions.  sess[h] holds both ends of the queues of the session that    *)
(* poller h opened last: the poller's end (host, write_poller: `host')     *)
(* and the registry's end (channels, writer: Device.handle is Some).       *)
(***************************************************************************)
NoFrame == WireFrame(0, 0, 0)

NoSession ==
    [host     |-> FALSE,   \* the task still owns RdxUsbFsHost + write poller
     chans    |-> FALSE,   \* the channels and the writer are still owned
     dev      |-> 0,       \* DeviceInfo.id of the claimed device
     rx       |-> <<>>,    \* one inbound queue per channel, index channel + 1
     tx       |-> <<>>,    \* the outbound queue
     rx_cap   |-> 0,       \* rx_q_size of open_device
     tx_cap   |-> 0,       \* n_packets of write_poller
     n_transfers |-> 0,    \* poll's n_transfers
     await_on_full |-> TRUE,  \* poll's await_on_full
     bulk_in  |-> <<>>,    \* bulk-IN transfers completed, not yet taken by poll
     in_pkt   |-> None,    \* the frame poll is suspended on in push().await
     out_pkt  |-> None]    \* the frame whose bulk-OUT transfer is in flight

\* RdxUsbFsHost::open_device: one queue per i in 0..=n_channels.
NewQueues(n_channels) == [i \in 1..(n_channels + 1) |-> <<>>]

NewSession(info, rx_q_size, n_packets, n_transfers, await_on_full) ==
    [host     |-> TRUE,
     chans    |-> TRUE,
     dev      |-> info.id,
     rx       |-> NewQueues(info.n_channels),
     tx       |-> <<>>,
     rx_cap   |-> rx_q_size,
     tx_cap   |-> n_packets,
     n_transfers |-> n_transfers,
     await_on_full |-> await_on_full,
     bulk_in  |-> <<>>,
     in_pkt   |-> None,
     out_pkt  |-> None]

\* Some object of task t still holds a clone of the claimed nusb::Interface.
HoldsInterface(t) == sess[t].host \/ sess[t].chans

Claimed(id) == \E t \in Tasks : HoldsInterface(t) /\ sess[t].dev = id

(***************************************************************************)
(* Initial state: EventLoop::new, no slot, no task.                        *)
(***************************************************************************)
NoWatch == [val |-> None, changed |-> FALSE, closed |-> FALSE]

NoPoller == [pc |-> "none", close_on_dc |-> FALSE, dev_info |-> None]

\* epoch and got mark the latest install of a session: the timestamp of the
\* last completion before it and the number of frames read before it.
NoLog == [completed |-> <<>>, pushed |-> <<>>, read |-> <<>>, lost |-> <<>>,
          accepted |-> <<>>, sent |-> <<>>, epoch |-> 0, got |-> 0]

NoHistory ==
    [issued |-> <<>>, closed_before |-> <<>>, buf_size |-> <<>>,
     removed |-> {}, closed |-> {}, all_closed |-> {}, ended |-> {},
     plugged |-> {},
     null_call |-> [entry |-> "none", flip |-> FALSE],
     n_in |-> 0, n_writes |-> 0,
     in_limit |-> MaxIn,   \* the frames the devices send in all
     log |-> [t \in Tasks |-> NoLog]]

\* No conversion under way.
NoCodec == [wire |-> None, public |-> None, back |-> None]

\* DeviceInfos::new: no iterator, next_idx 0.
NoIterators == [info_map |-> [k \in {} |-> <<>>], next_idx |-> 0]

\* A foreign thread outside read_packets.
NoCall == [pc |-> "idle", handle_id |-> 0, channel |-> 0, max |-> 0, out |-> <<>>]

Init ==
    /\ devices = [h \in {} |-> 0]
    /\ next_handle = 0
    /\ poisoned = FALSE
    /\ poller = [t \in Tasks |-> NoPoller]
    /\ watch = [h \in Handles |-> NoWatch]
    /\ shutdown = [h \in Handles |-> FALSE]
    /\ sess = [t \in Tasks |-> NoSession]
    /\ attached \in SUBSET UsbDevices
    /\ iters = NoIterators
    /\ codec = NoCodec
    /\ lock = NoOwner
    /\ calls = [th \in Threads |-> NoCall]
    /\ hist = NoHistory

(***************************************************************************)
(* Registry helpers (impl EventLoop).                                      *)
(***************************************************************************)
Insert(devs, h, device) ==
    [k \in DOMAIN devs \cup {h} |-> IF k = h THEN device ELSE devs[k]]

Remove(devs, hs) == [k \in DOMAIN devs \ hs |-> devs[k]]

\* update_open_device / remove_open_device unwrap devices.get_mut(&id):
\* they panic, with the registry lock held, when the slot is gone.
update_open_device(devs, id, open_device) ==
    [devs EXCEPT ![id].handle = Some(open_device)]

\* A remove_open_device that leaves the OpenDevice in the slot.
KeepOpenDevice(devs, id) == devs

remove_open_device(devs, id) == [devs EXCEPT ![id].handle = None]

\* acquire_open_device: the error a call on handle id gets, 0 for Ok.
acquire_open_device(devs, id) ==
    IF id \notin DOMAIN devs THEN ERR_DEVICE_NOT_OPENED
    ELSE IF ~IsSome(devs[id].handle) THEN ERR_DEVICE_NOT_CONNECTED
    ELSE ERR_NONE

\* Dropping a Device drops its watch Sender: the receiver sees the channel
\* closed once it has seen the last value.
DropSenders(w, hs) ==
    [h \in Handles |-> IF h \in hs THEN [w[h] EXCEPT !.closed = TRUE] ELSE w[h]]

\* Notify::notify_one on the slots hs: wakes the task waiting in notified(),
\* or stores one permit for the next notified().
NotifyOne(sd, hs) == [h \in Handles |-> sd[h] \/ h \in hs]

\* Dropping the OpenDevice of the slots hs drops their channels and writer:
\* what the inbound queues hold can no longer be read.
DropChans(ss, hs) ==
    [t \in Tasks |->
        IF t \in hs
        THEN [ss[t] EXCEPT !.chans = FALSE,
                           !.rx = [i \in DOMAIN ss[t].rx |-> <<>>]]
        ELSE ss[t]]

\* Frames still queued for channel reads.
Buffered(s) ==
    LET RECURSIVE Cat(_)
        Cat(i) == IF i > Len(s.rx) THEN <<>> ELSE s.rx[i] \o Cat(i + 1)
    IN  Cat(1)

\* The log of the frames that were queued when the slots hs lost their
\* OpenDevice.
LoseBuffered(log, ss, hs) ==
    [t \in Tasks |->
        IF t \in hs THEN [log[t] EXCEPT !.lost = @ \o Buffered(ss[t])] ELSE log[t]]

\* The queues of a session whose two ends are both dropped are freed.
Reap(ss) ==
    [t \in Tasks |-> IF ~ss[t].host /\ ~ss[t].chans THEN NoSession ELSE ss[t]]

(***************************************************************************)
(* force_scan_devices: for every enumerated device, send_replace on the    *)
(* first slot (in HashMap order, which is arbitrary) that matches it.  A   *)
(* scan outcome maps each slot to the descriptor it is left with (None:    *)
(* nothing was sent to it).                                                *)
(***************************************************************************)
Matching(devs, info) == {h \in DOMAIN devs : matches_device_info(devs[h], info)}

ScanOutcomes(devs, infos) ==
    LET Targets == [infos -> DOMAIN devs \cup {-1}]
        Valid(f) == \A d \in infos :
                       IF Matching(devs, d) = {} THEN f[d] = -1
                       ELSE f[d] \in Matching(devs, d)
        Sent(f, h) == {d \in infos : f[d] = h}
    IN  { w \in [DOMAIN devs -> {None} \cup {Some(d) : d \in infos}] :
            \E f \in {g \in Targets : Valid(g)} :
               \A h \in DOMAIN devs :
                  IF Sent(f, h) = {} THEN w[h] = None
                  ELSE IsSome(w[h]) /\ Unwrap(w[h]) \in Sent(f, h) }

\* watch::Sender::send_replace on every slot the outcome sends to.
Publish(w, outcome) ==
    [h \in Handles |->
        IF h \in DOMAIN outcome /\ IsSome(outcome[h])
        THEN [w[h] EXCEPT !.val = outcome[h], !.changed = TRUE]
        ELSE w[h]]

(***************************************************************************)
(* Foreign calls (c_api.rs over event_loop.rs).  Each holds the registry   *)
(* lock from try_acquire_event_loop to its return.  What a call returns is *)
(* an operator of the state it is made in (..._ret, ReadResult,            *)
(* WriteResult); the action applies the same operator.                     *)
(***************************************************************************)
\* EVENT_LOOP.lock() returns only when nobody owns the mutex; a caller that
\* finds it owned blocks (a foreign thread, or the runtime thread a poller
\* runs on): LockFree.
\* A lock test that lets every caller in.
LockIgnored(l) == TRUE

LockFree(l) == l = NoOwner

\* try_acquire_event_loop: Err(EventLoopCrashed) on a poisoned mutex.
try_acquire_event_loop == IF poisoned THEN ERR_EVENT_LOOP_CRASHED ELSE ERR_NONE

\* A counter that does not advance.
NextHandleStuck(n) == n

\* event_loop.next_handle += 1
NextHandle(n) == n + 1

\* The slots an open_device request matches (find_map takes any one).
Existing(devs, vid, pid, serial_number) ==
    {h \in DOMAIN devs : matches(devs[h], vid, pid, serial_number)}

\* The result of open_device after its force_scan_devices(event_loop)?
OpenResult(handle, list_ok) == IF list_ok THEN handle ELSE ERR_CANNOT_LIST_DEVICES

\* force_scan_devices on the registry devs: the watches afterwards.
Scanned(w, devs, list_ok, w2) ==
    IF list_ok
    THEN \E outcome \in ScanOutcomes(devs, attached) : w2 = Publish(w, outcome)
    ELSE w2 = w

\* rdxusb_open_device: the values the call can return in this state (any
\* matching slot's handle: find_map follows the HashMap's order).  buf_size
\* is an argument of the entry point that event_loop::open_device has no
\* parameter for: nothing of the registry depends on it.
open_device_ret(vid, pid, serial_number, list_ok) ==
    IF try_acquire_event_loop # ERR_NONE THEN {try_acquire_event_loop}
    ELSE IF Existing(devices, vid, pid, serial_number) # {}
    THEN {OpenResult(h, list_ok) : h \in Existing(devices, vid, pid, serial_number)}
    ELSE {OpenResult(next_handle, list_ok)}

open_device(vid, pid, serial_number, close_on_dc, buf_size, list_ok) ==
    /\ LockFree(lock)
    /\ IF try_acquire_event_loop # ERR_NONE
       THEN UNCHANGED vars
       ELSE IF Existing(devices, vid, pid, serial_number) # {}
       THEN /\ Scanned(watch, devices, list_ok, watch')
            /\ UNCHANGED <<devices, next_handle, poisoned, poller, shutdown,
                           sess, attached, iters, codec, hist, lock, calls>>
       ELSE /\ next_handle < MaxHandles
            /\ LET handle == next_handle
                   device_entry == [vid |-> vid, pid |-> pid,
                                    serial_number |-> serial_number,
                                    handle |-> None]
                   devs == Insert(devices, handle, device_entry)
               IN  /\ next_handle' = NextHandle(next_handle)
                   /\ poller' = [poller EXCEPT ![handle] =
                                   [pc |-> "wait", close_on_dc |-> close_on_dc,
                                    dev_info |-> None]]
                   /\ shutdown' = [shutdown EXCEPT ![handle] = FALSE]
                   /\ devices' = devs
                   /\ Scanned([watch EXCEPT ![handle] = NoWatch], devs,
                              list_ok, watch')
                   /\ hist' = [hist EXCEPT !.issued = Append(@, handle),
                                           !.closed_before = Append(@, hist.removed),
                                           !.buf_size = Append(@, buf_size)]
                   /\ UNCHANGED <<poisoned, sess, attached, iters, codec, lock, calls>>

\* rdxusb_force_scan_devices
force_scan_devices_ret(list_ok) ==
    IF try_acquire_event_loop # ERR_NONE THEN try_acquire_event_loop
    ELSE OpenResult(0, list_ok)

force_scan_devices(list_ok) ==
    /\ LockFree(lock)
    /\ IF try_acquire_event_loop # ERR_NONE
       THEN watch' = watch
       ELSE Scanned(watch, devices, list_ok, watch')
    /\ UNCHANGED <<devices, next_handle, poisoned, poller, shutdown, sess,
                   attached, iters, codec, hist, lock, calls>>

\* close_device: notify_one, then remove (which drops the Device: its
\* session end, its watch sender, its JoinHandle; the task is not aborted).
close_device_ret(handle_id) ==
    IF try_acquire_event_loop # ERR_NONE THEN try_acquire_event_loop ELSE ERR_NONE

\* The slots close_device(handle_id) removes.
CloseTargets(devs, handle_id) == IF handle_id \in DOMAIN devs THEN {handle_id} ELSE {}

\* Removing the slots hs from the registry, each after notify_one.
CloseSlots(hs) ==
    LET devs == Remove(devices, hs) IN
    /\ shutdown' = NotifyOne(shutdown, hs)
    /\ devices' = devs
    /\ watch' = DropSenders(watch, hs)
    /\ sess' = Reap(DropChans(sess, {h \in hs : IsSome(devices[h].handle)}))

close_device(handle_id) ==
    /\ LockFree(lock)
    /\ IF try_acquire_event_loop # ERR_NONE
       THEN UNCHANGED vars
       ELSE /\ CloseSlots(CloseTargets(devices, handle_id))
            /\ hist' = [hist EXCEPT
                           !.removed = @ \cup CloseTargets(devices, handle_id),
                           !.closed = @ \cup ({handle_id} \cap Range(hist.issued)),
                           !.log = LoseBuffered(@, sess, CloseTargets(devices, handle_id))]
            /\ UNCHANGED <<next_handle, poisoned, poller, attached, iters, codec,
                           lock, calls>>

\* close_all_devices: retain(|_, device| { device.shutdown.notify_one(); false })
close_all_devices_ret == close_device_ret(0)

close_all_devices ==
    /\ LockFree(lock)
    /\ IF try_acquire_event_loop # ERR_NONE
       THEN UNCHANGED vars
       ELSE /\ CloseSlots(DOMAIN devices)
            /\ hist' = [hist EXCEPT !.removed = @ \cup DOMAIN devices,
                                    !.all_closed = @ \cup Range(hist.issued),
                                    !.log = LoseBuffered(@, sess, DOMAIN devices)]
            /\ UNCHANGED <<next_handle, poisoned, poller, attached, iters, codec,
                           lock, calls>>

\* The for loop of read_packets over a channel that exists: try_read pops
\* one frame per output slot and converts it, until NoData.
RECURSIVE ReadLoop(_, _, _)
ReadLoop(q, max, out) ==
    IF max = 0 \/ q = <<>>
    THEN [q |-> q, out |-> out]
    ELSE ReadLoop(Pop(q), max - 1, Append(out, ToPublic(Front(q))))

\* OpenDevice::try_read on a channel index the session has no queue for.
ChannelOutOfRange(vec, channel_idx) == Len(vec) <= channel_idx

\* rdxusb_read_packets(handle_id, channel, packets, max, packets_read) with
\* non-null pointers: ret is the return value, n what *packets_read is set
\* to (None: not written), out the frames written to packets, q the
\* channel's queue afterwards.
ReadResult(handle_id, channel, max) ==
    LET Fail(e) == [ret |-> e, n |-> None, out |-> <<>>, q |-> <<>>]
        e == acquire_open_device(devices, handle_id)
    IN  IF try_acquire_event_loop # ERR_NONE THEN Fail(try_acquire_event_loop)
        ELSE IF e # ERR_NONE THEN Fail(e)
        ELSE IF max = 0 THEN [ret |-> 0, n |-> Some(0), out |-> <<>>, q |-> <<>>]
        ELSE IF ChannelOutOfRange(sess[handle_id].rx, channel)
        THEN Fail(ERR_CHANNEL_OUT_OF_RANGE)
        ELSE LET r == ReadLoop(sess[handle_id].rx[channel + 1], max, <<>>)
             IN  [ret |-> 0, n |-> Some(Len(r.out)), out |-> r.out, q |-> r.q]

read_packets(handle_id, channel, max) ==
    LET r == ReadResult(handle_id, channel, max) IN
    /\ LockFree(lock)
    /\ IF r.ret = 0 /\ max > 0
       THEN /\ sess' = [sess EXCEPT ![handle_id].rx[channel + 1] = r.q]
            /\ hist' = [hist EXCEPT !.log[handle_id].read = @ \o r.out]
       ELSE UNCHANGED <<sess, hist>>
    /\ UNCHANGED <<devices, next_handle, poisoned, poller, watch, shutdown,
                   attached, iters, codec, lock, calls>>

\* The for loop of write_packets: try_write converts a frame (Err when
\* dlc > 48) and try_sends it (Err when the queue is full); the loop
\* breaks at the first Err.
RECURSIVE WriteLoop(_, _, _, _)
WriteLoop(q, cap, packets, written) ==
    IF packets = <<>> THEN [q |-> q, written |-> written]
    ELSE IF ~FromPublicOk(Head(packets)) THEN [q |-> q, written |-> written]
    ELSE IF IsFull(q, cap) THEN [q |-> q, written |-> written]
    ELSE WriteLoop(Push(q, FromPublic(Head(packets))), cap, Tail(packets),
                   written + 1)

\* rdxusb_write_packets(handle_id, packets, len, packets_written) with
\* non-null pointers: n is what *packets_written is set to, q the outbound
\* queue afterwards.
WriteResult(handle_id, packets) ==
    LET Fail(e) == [ret |-> e, n |-> None, q |-> <<>>]
        e == acquire_open_device(devices, handle_id)
    IN  IF try_acquire_event_loop # ERR_NONE THEN Fail(try_acquire_event_loop)
        ELSE IF e # ERR_NONE THEN Fail(e)
        ELSE LET r == WriteLoop(sess[handle_id].tx, sess[handle_id].tx_cap,
                                packets, 0)
             IN  [ret |-> 0, n |-> Some(r.written), q |-> r.q]

write_packets(handle_id, packets) ==
    LET r == WriteResult(handle_id, packets) IN
    /\ LockFree(lock)
    /\ IF r.ret = 0
       THEN /\ sess' = [sess EXCEPT ![handle_id].tx = r.q]
            /\ hist' = [hist EXCEPT
                           !.log[handle_id].accepted =
                              @ \o SubSeq(r.q, Len(sess[handle_id].tx) + 1, Len(r.q)),
                           !.n_writes = @ + (IF r.q = sess[handle_id].tx THEN 0 ELSE 1)]
       ELSE UNCHANGED <<sess, hist>>
    /\ UNCHANGED <<devices, next_handle, poisoned, poller, watch, shutdown,
                   attached, iters, codec, lock, calls>>

(***************************************************************************)
(* read_packets step by step, as a foreign thread th runs it while other   *)
(* threads and the pumps run.  calls[th].pc:                               *)
(*   "idle"  outside the call                                              *)
(*   "lock"  in try_acquire_event_loop, waiting for the mutex              *)
(*   "loop"  at the head of the for loop, owning the mutex                 *)
(*   "pop"   inside try_read: the frame at the head of the queue has been  *)
(*           copied out, the queue's read index is not advanced yet        *)
(***************************************************************************)
ReadEnter(th, handle_id, channel, max) ==
    /\ calls[th].pc = "idle"
    /\ calls' = [calls EXCEPT ![th] =
                   [pc |-> "lock", handle_id |-> handle_id, channel |-> channel,
                    max |-> max, out |-> <<>>]]
    /\ UNCHANGED <<devices, next_handle, poisoned, poller, watch, shutdown,
                   sess, attached, iters, codec, lock, hist>>

\* try_acquire_event_loop()? and acquire_open_device(handle_id)?: an Err
\* returns at once, and the guard is dropped with it.
ReadAcquire(th) ==
    /\ calls[th].pc = "lock"
    /\ LockFree(lock)
    /\ IF \/ try_acquire_event_loop # ERR_NONE
          \/ acquire_open_device(devices, calls[th].handle_id) # ERR_NONE
       THEN /\ calls' = [calls EXCEPT ![th] = NoCall]
            /\ lock' = lock
       ELSE /\ calls' = [calls EXCEPT ![th].pc = "loop"]
            /\ lock' = th
    /\ UNCHANGED <<devices, next_handle, poisoned, poller, watch, shutdown,
                   sess, attached, iters, codec, hist>>

\* The queue the call of thread th reads (empty when the session has no
\* queue for the channel).
ReadQueue(th) ==
    IF ChannelOutOfRange(sess[calls[th].handle_id].rx, calls[th].channel)
    THEN <<>>
    ELSE sess[calls[th].handle_id].rx[calls[th].channel + 1]

\* try_read finds a frame: it is copied into the next output slot.
ReadPeek(th) ==
    /\ calls[th].pc = "loop"
    /\ Len(calls[th].out) < calls[th].max
    /\ ReadQueue(th) # <<>>
    /\ calls' = [calls EXCEPT ![th].pc = "pop",
                              ![th].out = Append(@, ToPublic(Front(ReadQueue(th))))]
    /\ hist' = [hist EXCEPT !.log[calls[th].handle_id].read =
                                Append(@, ToPublic(Front(ReadQueue(th))))]
    /\ UNCHANGED <<devices, next_handle, poisoned, poller, watch, shutdown,
                   sess, attached, iters, codec, lock>>

\* try_read advances the queue's read index past the frame it copied.
ReadAdvance(th) ==
    /\ calls[th].pc = "pop"
    /\ calls' = [calls EXCEPT ![th].pc = "loop"]
    /\ sess' = IF ReadQueue(th) = <<>> THEN sess
               ELSE [sess EXCEPT ![calls[th].handle_id].rx[calls[th].channel + 1] =
                                    Pop(@)]
    /\ UNCHANGED <<devices, next_handle, poisoned, poller, watch, shutdown,
                   attached, iters, codec, lock, hist>>

\* The loop ends (no output slot left, NoData, or ChannelOutOfRange): the
\* call returns and the guard is dropped.
ReadReturn(th) ==
    /\ calls[th].pc = "loop"
    /\ \/ Len(calls[th].out) = calls[th].max
       \/ ReadQueue(th) = <<>>
    /\ calls' = [calls EXCEPT ![th] = NoCall]
    /\ lock' = NoOwner
    /\ UNCHANGED <<devices, next_handle, poisoned, poller, watch, shutdown,
                   sess, attached, iters, codec, hist>>

(***************************************************************************)
(* The entry points of c_api.rs with their pointer arguments.  A pointer   *)
(* is NULL or points to a buffer of the caller.  hist.null_call keeps the  *)
(* entry point that last rejected a null pointer, and flips at each such   *)
(* call.                                                                   *)
(***************************************************************************)
NULL == "NULL"

Ptrs == {NULL, "buf"}

\* A null check that never finds a null pointer.
NeverNull(p) == FALSE

is_null(p) == p = NULL

\* return EventLoopError::ERR_NULL_PTR, before any lock is taken.
NullPtrReturn(entry) ==
    /\ hist' = [hist EXCEPT !.null_call = [entry |-> entry, flip |-> ~@.flip]]
    /\ UNCHANGED <<devices, next_handle, poisoned, poller, watch, shutdown,
                   sess, attached, iters, codec, lock, calls>>

rdxusb_read_packets_ret(handle_id, channel, packets, max_packets, packets_read) ==
    IF is_null(packets) \/ is_null(packets_read) THEN ERR_NULL_PTR
    ELSE ReadResult(handle_id, channel, max_packets).ret

rdxusb_read_packets(handle_id, channel, packets, max_packets, packets_read) ==
    IF is_null(packets) \/ is_null(packets_read)
    THEN NullPtrReturn("read_packets")
    ELSE read_packets(handle_id, channel, max_packets)

\* rdxusb_write_packets: ret is the return value, n what *packets_written
\* is set to (None: not written; packets_written.as_mut() is None for a
\* null pointer), q the outbound queue afterwards.
rdxusb_write_packets_ret(handle_id, packets, frames, packets_written) ==
    LET r == WriteResult(handle_id, frames) IN
    IF is_null(packets) THEN [ret |-> ERR_NULL_PTR, n |-> None, q |-> <<>>]
    ELSE [ret |-> r.ret,
          n   |-> IF is_null(packets_written) THEN None ELSE r.n,
          q   |-> r.q]

rdxusb_write_packets(handle_id, packets, frames, packets_written) ==
    IF is_null(packets)
    THEN NullPtrReturn("write_packets")
    ELSE write_packets(handle_id, frames)

(***************************************************************************)
(* Device iterators (DEVICE_INFOS): a snapshot of nusb::list_devices per   *)
(* iterator id.                                                            *)
(***************************************************************************)
IterIds == 0..MaxIters

\* The orders nusb::list_devices may enumerate the devices of S in.
Orders(S) ==
    {q \in [1..Cardinality(S) -> S] : \A i, j \in DOMAIN q : i # j => q[i] # q[j]}

\* DeviceInfos::allocate_idx_and_insert
allocate_idx_and_insert(infos, devs) ==
    [info_map |-> Insert(infos.info_map, infos.next_idx, devs),
     next_idx |-> infos.next_idx + 1]

\* DeviceInfos::free_idx (free_idx).
\* A free that drops every snapshot.
FreeEveryIdx(infos, idx) == [infos EXCEPT !.info_map = [k \in {} |-> <<>>]]

free_idx(infos, idx) == [infos EXCEPT !.info_map = Remove(@, {idx})]

\* rdxusb_new_device_iterator: ret is the return value, iter_id and
\* n_devices what the two out pointers are set to.
rdxusb_new_device_iterator_ret(iter_id, n_devices, list_ok, devs) ==
    LET Fail(e) == [ret |-> e, iter_id |-> None, n_devices |-> None] IN
    IF is_null(iter_id) \/ is_null(n_devices) THEN Fail(ERR_NULL_PTR)
    ELSE IF ~list_ok THEN Fail(ERR_CANNOT_LIST_DEVICES)
    ELSE [ret |-> 0, iter_id |-> Some(iters.next_idx), n_devices |-> Some(Len(devs))]

rdxusb_new_device_iterator(iter_id, n_devices, list_ok) ==
    IF is_null(iter_id) \/ is_null(n_devices)
    THEN NullPtrReturn("new_device_iterator")
    ELSE /\ iters.next_idx < MaxIters
         /\ IF list_ok
            THEN \E devs \in Orders(attached) :
                    iters' = allocate_idx_and_insert(iters, devs)
            ELSE iters' = iters
         /\ UNCHANGED <<devices, next_handle, poisoned, poller, watch, shutdown,
                        sess, attached, codec, hist, lock, calls>>

\* rdxusb_get_device_in_iterator: ret is the return value, entry what
\* *device_entry is set to.
rdxusb_get_device_in_iterator_ret(iter_id, device_idx, device_entry) ==
    LET Fail(e) == [ret |-> e, entry |-> None] IN
    IF is_null(device_entry) THEN Fail(ERR_NULL_PTR)
    ELSE IF iter_id \notin DOMAIN iters.info_map THEN Fail(ERR_DEVICE_ITER_INVALID)
    ELSE IF device_idx >= Len(iters.info_map[iter_id])
    THEN Fail(ERR_DEVICE_ITER_IDX_OUT_OF_RANGE)
    ELSE LET device_ent == iters.info_map[iter_id][device_idx + 1]
         IN  [ret |-> 0,
              entry |-> Some([serial |-> device_ent.serial,
                              vid |-> device_ent.vid, pid |-> device_ent.pid])]

rdxusb_get_device_in_iterator(iter_id, device_idx, device_entry) ==
    IF is_null(device_entry)
    THEN NullPtrReturn("get_device_in_iterator")
    ELSE UNCHANGED vars

\* rdxusb_free_device_iterator: free_idx, then 0, whatever the id.
rdxusb_free_device_iterator_ret(iter_id) == ERR_NONE

rdxusb_free_device_iterator(iter_id) ==
    /\ iters' = free_idx(iters, iter_id)
    /\ UNCHANGED <<devices, next_handle, poisoned, poller, watch, shutdown,
                   sess, attached, codec, hist, lock, calls>>

(***************************************************************************)
(* device_poller(id, device_info_in, shutdown, close_on_dc).               *)
(*   pc "wait"     device_info_in.changed().await                          *)
(*   pc "opening"  RdxUsbFsHost::open_device(dev_info, 32).await           *)
(*   pc "running"  the select! over host.poll, write_poller.poll and       *)
(*                 shutdown.notified()                                     *)
(*   pc "ended"    a pump branch of the select completed; the block that   *)
(*                 clears the session has not taken the lock yet           *)
(*   pc "done"     the task returned; "panicked": it unwound               *)
(***************************************************************************)
SetPc(h, pc) == [poller EXCEPT ![h].pc = pc, ![h].dev_info = None]

\* changed() is Ok when a value was sent since the receiver last looked (even
\* if the sender is gone by now) and Err when the sender is gone;
\* borrow_and_update marks the value seen.
PollerWake(h) ==
    /\ poller[h].pc = "wait"
    /\ \/ /\ watch[h].changed
          /\ watch' = [watch EXCEPT ![h].changed = FALSE]
          /\ poller' = IF IsSome(watch[h].val)
                       THEN [poller EXCEPT ![h].pc = "opening",
                                           ![h].dev_info = watch[h].val]
                       ELSE poller
       \/ /\ ~watch[h].changed
          /\ watch[h].closed
          /\ poller' = SetPc(h, "done")
          /\ watch' = watch
    /\ UNCHANGED <<devices, next_handle, poisoned, shutdown, sess, attached, iters, codec, hist,
                   lock, calls>>

\* RdxUsbFsHost::open_device returned Err (no interface, open / detach /
\* claim failed, the DeviceInfo request failed): continue.
PollerOpenFail(h) ==
    /\ poller[h].pc = "opening"
    /\ poller' = SetPc(h, "wait")
    /\ UNCHANGED <<devices, next_handle, poisoned, watch, shutdown, sess,
                   attached, iters, codec, hist, lock, calls>>

\* RdxUsbFsHost::open_device returned Ok: the poller builds the OpenDevice,
\* takes the lock (acquire_event_loop unwraps the lock result) and calls
\* update_open_device (which unwraps the slot lookup).
PollerOpenOk(h) ==
    /\ poller[h].pc = "opening"
    /\ Unwrap(poller[h].dev_info) \in attached
    /\ ~Claimed(Unwrap(poller[h].dev_info).id)
    /\ LockFree(lock)
    /\ LET dev_info == Unwrap(poller[h].dev_info)
           od == [device_id |-> dev_info.id, protocol |-> 0]
       IN  IF poisoned
           THEN /\ poller' = SetPc(h, "panicked")
                /\ UNCHANGED <<devices, poisoned, sess, hist>>
           ELSE IF h \notin DOMAIN devices
           THEN /\ poller' = SetPc(h, "panicked")
                /\ poisoned' = TRUE
                /\ UNCHANGED <<devices, sess, hist>>
           ELSE /\ devices' = update_open_device(devices, h, od)
                /\ sess' = [sess EXCEPT ![h] =
                              NewSession(dev_info, PollerQueueSize, PollerQueueSize,
                                         PollerTransfers, PollerAwaitOnFull)]
                /\ poller' = SetPc(h, "running")
                /\ hist' = [hist EXCEPT !.log[h].accepted = <<>>,
                                        !.log[h].sent = <<>>,
                                        !.log[h].epoch = hist.n_in,
                                        !.log[h].got = Len(hist.log[h].read)]
                /\ UNCHANGED poisoned
    /\ UNCHANGED <<next_handle, watch, shutdown, attached, iters, codec, lock, calls>>

\* The pump futures of a select! that completed are dropped: the bulk-IN
\* queue with its completions, the frame a suspended push held, the
\* bulk-OUT transfer in flight.
DropPumps(ss, h) ==
    [ss EXCEPT ![h].bulk_in = <<>>, ![h].in_pkt = None, ![h].out_pkt = None]

\* The task's locals (host, write_poller) are dropped.
DropHost(ss, h) == [DropPumps(ss, h) EXCEPT ![h].host = FALSE]

\* The select! completes on shutdown.notified(): return.  Everything the
\* task owns is dropped.
PollerShutdown(h) ==
    /\ poller[h].pc = "running"
    /\ shutdown[h]
    /\ shutdown' = [shutdown EXCEPT ![h] = FALSE]
    /\ poller' = SetPc(h, "done")
    /\ sess' = Reap(DropHost(sess, h))
    /\ UNCHANGED <<devices, next_handle, poisoned, watch, attached, iters, codec, hist,
                   lock, calls>>

\* After the select!: take the lock, remove_open_device, and with
\* close_on_dc remove the slot and return; otherwise loop.
PollerTeardown(h) ==
    /\ poller[h].pc = "ended"
    /\ LockFree(lock)
    /\ LET dropped == [sess EXCEPT ![h] = NoSession] IN
       IF poisoned
       THEN /\ poller' = SetPc(h, "panicked")
            /\ sess' = Reap(DropHost(sess, h))
            /\ UNCHANGED <<devices, poisoned, watch, hist>>
       ELSE IF h \notin DOMAIN devices
       THEN /\ poller' = SetPc(h, "panicked")
            /\ poisoned' = TRUE
            /\ sess' = dropped
            /\ UNCHANGED <<devices, watch, hist>>
       ELSE /\ sess' = dropped
            /\ hist' = [hist EXCEPT !.log[h].lost = @ \o Buffered(sess[h]),
                                    !.removed = IF poller[h].close_on_dc
                                                THEN @ \cup {h} ELSE @]
            /\ IF poller[h].close_on_dc
               THEN /\ devices' = Remove(devices, {h})
                    /\ watch' = DropSenders(watch, {h})
                    /\ poller' = SetPc(h, "done")
               ELSE /\ devices' = remove_open_device(devices, h)
                    /\ watch' = watch
                    /\ poller' = SetPc(h, "wait")
            /\ UNCHANGED poisoned
    /\ UNCHANGED <<next_handle, shutdown, attached, iters, codec, lock, calls>>

(***************************************************************************)
(* device_poller step by step: the same code with every lock acquisition   *)
(* and the await inside RdxUsbFsHost::open_device as steps of their own.   *)
(*   pc "opening"     in RdxUsbFsHost::open_device, before claim_interface *)
(*   pc "handshake"   interface claimed, get_device_info(&iface).await     *)
(*   pc "install"     open_device returned Ok, the OpenDevice is built;    *)
(*                    in acquire_event_loop(), waiting for the mutex       *)
(*   pc "installing"  owns the mutex, before update_open_device            *)
(*   pc "ended"       a pump branch of the select! completed; in           *)
(*                    acquire_event_loop(), waiting for the mutex          *)
(*   pc "clearing"    owns the mutex, before remove_open_device            *)
(***************************************************************************)
\* The session of a task that has claimed the interface and has no queues
\* yet.
ClaimedSession(info) == [NoSession EXCEPT !.host = TRUE, !.dev = info.id]

\* dev_info.open(), detach_kernel_driver and claim_interface succeeded.
PollerClaim(h) ==
    /\ poller[h].pc = "opening"
    /\ Unwrap(poller[h].dev_info) \in attached
    /\ ~Claimed(Unwrap(poller[h].dev_info).id)
    /\ sess' = [sess EXCEPT ![h] = ClaimedSession(Unwrap(poller[h].dev_info))]
    /\ poller' = [poller EXCEPT ![h].pc = "handshake"]
    /\ UNCHANGED <<devices, next_handle, poisoned, watch, shutdown, attached,
                   iters, codec, lock, calls, hist>>

\* get_device_info returned Err: open_device returns it by `?', dropping
\* the claimed interface; the poller continues its loop.
PollerHandshakeFail(h) ==
    /\ poller[h].pc = "handshake"
    /\ sess' = [sess EXCEPT ![h] = NoSession]
    /\ poller' = SetPc(h, "wait")
    /\ UNCHANGED <<devices, next_handle, poisoned, watch, shutdown, attached,
                   iters, codec, lock, calls, hist>>

\* get_device_info returned Ok: open_device builds the queues and returns,
\* the poller builds the write poller and the OpenDevice.
PollerOpened(h) ==
    /\ poller[h].pc = "handshake"
    /\ Unwrap(poller[h].dev_info) \in attached
    /\ sess' = [sess EXCEPT ![h] =
                  NewSession(Unwrap(poller[h].dev_info), PollerQueueSize,
                             PollerQueueSize, PollerTransfers, PollerAwaitOnFull)]
    /\ poller' = [poller EXCEPT ![h].pc = "install"]
    /\ UNCHANGED <<devices, next_handle, poisoned, watch, shutdown, attached,
                   iters, codec, lock, calls, hist>>

\* acquire_event_loop(): EVENT_LOOP.lock().unwrap() panics on a poisoned
\* mutex (the task unwinds and drops what it owns), otherwise the task owns
\* the mutex.
PollerAcquire(h) ==
    /\ poller[h].pc \in {"install", "ended"}
    /\ LockFree(lock)
    /\ IF poisoned
       THEN /\ poller' = SetPc(h, "panicked")
            /\ sess' = IF poller[h].pc = "install"
                       THEN [sess EXCEPT ![h] = NoSession]
                       ELSE Reap(DropHost(sess, h))
            /\ lock' = lock
       ELSE /\ poller' = [poller EXCEPT ![h].pc =
                            IF poller[h].pc = "install" THEN "installing"
                            ELSE "clearing"]
            /\ lock' = h
            /\ sess' = sess
    /\ UNCHANGED <<devices, next_handle, poisoned, watch, shutdown, attached,
                   iters, codec, calls, hist>>

\* A panic of the task that owns the mutex: the guard is dropped during
\* unwinding, which poisons the mutex; the task's session is dropped.
PanicLocked(h) ==
    /\ poller' = SetPc(h, "panicked")
    /\ poisoned' = TRUE
    /\ lock' = NoOwner
    /\ sess' = [sess EXCEPT ![h] = NoSession]

\* event_loop.update_open_device(id, open_device), then the guard is
\* dropped at the end of the block (PollerInstall).
\* An install whose guard lives on into the select!.
PollerInstallHolding(h) ==
    /\ poller[h].pc = "installing"
    /\ IF h \notin DOMAIN devices
       THEN PanicLocked(h) /\ UNCHANGED <<devices, hist>>
       ELSE /\ devices' = update_open_device(devices, h,
                             [device_id |-> sess[h].dev, protocol |-> 0])
            /\ poller' = SetPc(h, "running")
            /\ lock' = lock
            /\ hist' = [hist EXCEPT !.log[h].accepted = <<>>,
                                    !.log[h].sent = <<>>,
                                    !.log[h].epoch = hist.n_in,
                                    !.log[h].got = Len(hist.log[h].read)]
            /\ UNCHANGED <<poisoned, sess>>
    /\ UNCHANGED <<next_handle, watch, shutdown, attached, iters, codec, calls>>

PollerInstall(h) ==
    /\ poller[h].pc = "installing"
    /\ IF h \notin DOMAIN devices
       THEN PanicLocked(h) /\ UNCHANGED <<devices, hist>>
       ELSE /\ devices' = update_open_device(devices, h,
                             [device_id |-> sess[h].dev, protocol |-> 0])
            /\ poller' = SetPc(h, "running")
            /\ lock' = NoOwner
            /\ hist' = [hist EXCEPT !.log[h].accepted = <<>>,
                                    !.log[h].sent = <<>>,
                                    !.log[h].epoch = hist.n_in,
                                    !.log[h].got = Len(hist.log[h].read)]
            /\ UNCHANGED <<poisoned, sess>>
    /\ UNCHANGED <<next_handle, watch, shutdown, attached, iters, codec, calls>>

\* event_loop.remove_open_device(id); with close_on_dc the slot is removed
\* and the task returns; the guard is dropped at the end of the block.
PollerClear(h) ==
    /\ poller[h].pc = "clearing"
    /\ IF h \notin DOMAIN devices
       THEN PanicLocked(h) /\ UNCHANGED <<devices, watch, hist>>
       ELSE /\ sess' = [sess EXCEPT ![h] = NoSession]
            /\ lock' = NoOwner
            /\ hist' = [hist EXCEPT !.log[h].lost = @ \o Buffered(sess[h]),
                                    !.removed = IF poller[h].close_on_dc
                                                THEN @ \cup {h} ELSE @]
            /\ IF poller[h].close_on_dc
               THEN /\ devices' = Remove(devices, {h})
                    /\ watch' = DropSenders(watch, {h})
                    /\ poller' = SetPc(h, "done")
               ELSE /\ devices' = remove_open_device(devices, h)
                    /\ watch' = watch
                    /\ poller' = SetPc(h, "wait")
            /\ UNCHANGED poisoned
    /\ UNCHANGED <<next_handle, shutdown, attached, iters, codec, calls>>

(***************************************************************************)
(* The pumps of a running session.                                         *)
(***************************************************************************)
\* A pump branch of the select! completed (host.poll with Err, or
\* write_poller.poll with Err or Ok).  hist.ended keeps the handles whose
\* session ended by a transfer error.
EndSession(h) ==
    /\ poller' = SetPc(h, "ended")
    /\ sess' = DropPumps(sess, h)

\* The bulk-IN pipeline delivers a completion: a 64-byte frame (whose dlc
\* byte is whatever the device put there), a buffer that does not decode
\* (wrong length), or a transfer error.
Completion(status, pkt) == [status |-> status, pkt |-> pkt]

BulkInComplete(h, status, ch, dlc) ==
    /\ poller[h].pc = "running"
    /\ Len(sess[h].bulk_in) < sess[h].n_transfers
    /\ \A i \in 1..Len(sess[h].bulk_in) : sess[h].bulk_in[i].status # "err"
    /\ IF status = "err"
       THEN /\ sess' = [sess EXCEPT ![h].bulk_in = Append(@, Completion("err", NoFrame))]
            /\ hist' = hist
       ELSE /\ hist.n_in < hist.in_limit
            /\ \E d \in attached : d.id = sess[h].dev
            /\ LET pkt == WireFrame(hist.n_in + 1, ch, dlc) IN
               /\ sess' = [sess EXCEPT ![h].bulk_in = Append(@, Completion(status, pkt))]
               /\ hist' = [hist EXCEPT !.n_in = @ + 1,
                                       !.log[h].completed =
                                          IF status = "ok" THEN Append(@, pkt) ELSE @]
    /\ UNCHANGED <<devices, next_handle, poisoned, poller, watch, shutdown,
                   attached, iters, codec, lock, calls>>

\* What poll does with a decoded frame: nothing when its channel has no
\* queue; push().await when await_on_full (Err at once when the consumer is
\* gone, suspended while the queue is full); try_push otherwise.
\* outcome: "skip", "drop", "push" or "wait".
\* A pump that uses try_push whatever the policy is.
PushOrDrop(s, pkt, consumer_alive) ==
    IF ~(pkt.channel < Len(s.rx)) THEN "skip"
    ELSE IF IsFull(s.rx[pkt.channel + 1], s.rx_cap) THEN "drop" ELSE "push"

PushOutcome(s, pkt, consumer_alive) ==
    IF ~(pkt.channel < Len(s.rx)) THEN "skip"
    ELSE IF s.await_on_full
         THEN IF ~consumer_alive THEN "drop"
              ELSE IF IsFull(s.rx[pkt.channel + 1], s.rx_cap) THEN "wait"
              ELSE "push"
         ELSE IF IsFull(s.rx[pkt.channel + 1], s.rx_cap) THEN "drop" ELSE "push"

\* host.poll takes the next completion: Err ends poll; a buffer that does
\* not decode is only resubmitted; a frame is pushed as above (PollNext).
\* A poll that also returns on a buffer that does not decode.
PollNextStrict(h) ==
    /\ poller[h].pc = "running"
    /\ sess[h].in_pkt = None
    /\ sess[h].bulk_in # <<>>
    /\ LET c == Head(sess[h].bulk_in)
           o == PushOutcome(sess[h], c.pkt, sess[h].chans)
           rest == [sess EXCEPT ![h].bulk_in = Tail(@)]
       IN  IF c.status # "ok"
           THEN EndSession(h) /\ hist' = [hist EXCEPT !.ended = @ \cup {h}]
           ELSE /\ poller' = poller
                /\ IF c.status = "ok" /\ o = "push"
                   THEN /\ sess' = [rest EXCEPT ![h].rx[c.pkt.channel + 1] = Push(@, c.pkt)]
                        /\ hist' = [hist EXCEPT !.log[h].pushed = Append(@, c.pkt)]
                   ELSE IF c.status = "ok" /\ o = "wait"
                   THEN /\ sess' = [rest EXCEPT ![h].in_pkt = Some(c.pkt)]
                        /\ hist' = hist
                   ELSE /\ sess' = rest
                        /\ hist' = hist
    /\ UNCHANGED <<devices, next_handle, poisoned, watch, shutdown, attached, iters, codec,
                   lock, calls>>

PollNext(h) ==
    /\ poller[h].pc = "running"
    /\ sess[h].in_pkt = None
    /\ sess[h].bulk_in # <<>>
    /\ LET c == Head(sess[h].bulk_in)
           o == PushOutcome(sess[h], c.pkt, sess[h].chans)
           rest == [sess EXCEPT ![h].bulk_in = Tail(@)]
       IN  IF c.status = "err"
           THEN EndSession(h) /\ hist' = [hist EXCEPT !.ended = @ \cup {h}]
           ELSE /\ poller' = poller
                /\ IF c.status = "ok" /\ o = "push"
                   THEN /\ sess' = [rest EXCEPT ![h].rx[c.pkt.channel + 1] = Push(@, c.pkt)]
                        /\ hist' = [hist EXCEPT !.log[h].pushed = Append(@, c.pkt)]
                   ELSE IF c.status = "ok" /\ o = "wait"
                   THEN /\ sess' = [rest EXCEPT ![h].in_pkt = Some(c.pkt)]
                        /\ hist' = hist
                   ELSE /\ sess' = rest
                        /\ hist' = hist
    /\ UNCHANGED <<devices, next_handle, poisoned, watch, shutdown, attached, iters, codec,
                   lock, calls>>

\* The suspended push().await is woken: by room in the queue, or by the
\* consumer having been dropped.
\* A push().await that, once woken, returns without enqueuing its frame.
PollResumeDiscard(h) ==
    /\ poller[h].pc = "running"
    /\ IsSome(sess[h].in_pkt)
    /\ LET pkt == Unwrap(sess[h].in_pkt)
           o == PushOutcome(sess[h], pkt, sess[h].chans)
       IN  /\ o # "wait"
           /\ sess' = [sess EXCEPT ![h].in_pkt = None]
           /\ hist' = hist
    /\ UNCHANGED <<devices, next_handle, poisoned, poller, watch, shutdown,
                   attached, iters, codec, lock, calls>>

PollResume(h) ==
    /\ poller[h].pc = "running"
    /\ IsSome(sess[h].in_pkt)
    /\ LET pkt == Unwrap(sess[h].in_pkt)
           o == PushOutcome(sess[h], pkt, sess[h].chans)
       IN  /\ o # "wait"
           /\ IF o = "push"
              THEN /\ sess' = [sess EXCEPT ![h].rx[pkt.channel + 1] = Push(@, pkt),
                                           ![h].in_pkt = None]
                   /\ hist' = [hist EXCEPT !.log[h].pushed = Append(@, pkt)]
              ELSE /\ sess' = [sess EXCEPT ![h].in_pkt = None]
                   /\ hist' = hist
    /\ UNCHANGED <<devices, next_handle, poisoned, poller, watch, shutdown,
                   attached, iters, codec, lock, calls>>

\* write_poller.poll: tx_queue.next().await yields the oldest frame, which
\* is submitted as one bulk-OUT transfer; it yields None (poll returns Ok)
\* when the queue is empty and its producer was dropped.
\* A stream that yields the newest frame.
StreamNewest(q) == q[Len(q)]

StreamNext(q) == Head(q)

WriteNext(h) ==
    /\ poller[h].pc = "running"
    /\ sess[h].out_pkt = None
    /\ IF sess[h].tx # <<>>
       THEN /\ sess' = [sess EXCEPT ![h].out_pkt = Some(StreamNext(sess[h].tx)),
                                    ![h].tx = Tail(@)]
            /\ hist' = [hist EXCEPT !.log[h].sent = Append(@, StreamNext(sess[h].tx))]
            /\ poller' = poller
       ELSE /\ ~sess[h].chans
            /\ EndSession(h)
            /\ hist' = hist
    /\ UNCHANGED <<devices, next_handle, poisoned, watch, shutdown, attached, iters, codec,
                   lock, calls>>

\* The bulk-OUT transfer in flight completes: Ok takes the next frame, Err
\* ends write_poller.poll.
\* A failed bulk-OUT transfer is queued again instead of ending the session.
BulkOutCompleteRetry(h, ok) ==
    /\ poller[h].pc = "running"
    /\ IsSome(sess[h].out_pkt)
    /\ IF ok
       THEN /\ \E d \in attached : d.id = sess[h].dev
            /\ sess' = [sess EXCEPT ![h].out_pkt = None]
       ELSE sess' = [sess EXCEPT ![h].out_pkt = None,
                                 ![h].tx = <<Unwrap(sess[h].out_pkt)>> \o @]
    /\ poller' = poller
    /\ hist' = hist
    /\ UNCHANGED <<devices, next_handle, poisoned, watch, shutdown, attached,
                   iters, codec, lock, calls>>

BulkOutComplete(h, ok) ==
    /\ poller[h].pc = "running"
    /\ IsSome(sess[h].out_pkt)
    /\ IF ok
       THEN /\ \E d \in attached : d.id = sess[h].dev
            /\ sess' = [sess EXCEPT ![h].out_pkt = None]
            /\ poller' = poller
            /\ hist' = hist
       ELSE /\ EndSession(h)
            /\ hist' = [hist EXCEPT !.ended = @ \cup {h}]
    /\ UNCHANGED <<devices, next_handle, poisoned, watch, shutdown, attached,
                   iters, codec, lock, calls>>

(***************************************************************************)
(* The bus.                                                                *)
(***************************************************************************)
\* A device is plugged in: the OS emits HotplugEvent::Connected for it.
\* hist.plugged keeps the devices that were plugged in since the start.
Attach(d) ==
    /\ d \notin attached
    /\ attached' = attached \cup {d}
    /\ hist' = [hist EXCEPT !.plugged = @ \cup {d.id}]
    /\ UNCHANGED <<devices, next_handle, poisoned, poller, watch, shutdown,
                   sess, iters, codec, lock, calls>>

Detach(d) ==
    /\ d \in attached
    /\ attached' = attached \ {d}
    /\ UNCHANGED <<devices, next_handle, poisoned, poller, watch, shutdown,
                   sess, hist, iters, codec, lock, calls>>

\* EventLoop::new creates the runtime and spawns nothing (the rt.spawn in
\* it is a comment), and no other code calls hotplug().
HotplugSpawned == FALSE

\* hotplug(): the handler of one Connected(device_info) event.  It takes the
\* lock with acquire_event_loop (which unwraps) and send_replaces on the
\* first slot, in HashMap order, that matches.
hotplug(device_info) ==
    /\ HotplugSpawned
    /\ LockFree(lock)
    /\ device_info \in attached
    /\ device_info.id \in hist.plugged
    /\ ~poisoned
    /\ \E h \in Matching(devices, device_info) :
          watch' = Publish(watch, [k \in DOMAIN devices |->
                                     IF k = h THEN Some(device_info) ELSE None])
    /\ UNCHANGED <<devices, next_handle, poisoned, poller, shutdown, sess,
                   attached, iters, codec, hist, lock, calls>>

(***************************************************************************)
(* A program that drives RdxUsbFsHost itself, as rdxusb-test does: it      *)
(* opens a device with its own rx_q_size and spawns a task that awaits     *)
(* poll(n_transfers, await_on_full); the channels stay with the program,   *)
(* which reads them through OpenDevice::try_read.                          *)
(***************************************************************************)
HostOpen(dev_info, rx_q_size, n_transfers, await_on_full) ==
    /\ poller[HostTask].pc = "none"
    /\ dev_info \in attached
    /\ ~Claimed(dev_info.id)
    /\ sess' = [sess EXCEPT ![HostTask] =
                  NewSession(dev_info, rx_q_size, 0, n_transfers, await_on_full)]
    /\ poller' = [poller EXCEPT ![HostTask].pc = "running"]
    /\ UNCHANGED <<devices, next_handle, poisoned, watch, shutdown, attached, iters, codec, hist,
                   lock, calls>>

\* The loop of read_packets over OpenDevice::try_read, on the program's
\* own channels.
HostRead(channel, max) ==
    /\ sess[HostTask].chans
    /\ ~ChannelOutOfRange(sess[HostTask].rx, channel)
    /\ LET r == ReadLoop(sess[HostTask].rx[channel + 1], max, <<>>) IN
       /\ r.out # <<>>
       /\ sess' = [sess EXCEPT ![HostTask].rx[channel + 1] = r.q]
       /\ hist' = [hist EXCEPT !.log[HostTask].read = @ \o r.out]
    /\ UNCHANGED <<devices, next_handle, poisoned, poller, watch, shutdown,
                   attached, iters, codec, lock, calls>>

\* The program drops its channels (it returns from its read loop).
HostDropChannels ==
    /\ sess[HostTask].chans
    /\ sess' = DropChans(sess, {HostTask})
    /\ hist' = [hist EXCEPT !.log = LoseBuffered(@, sess, {HostTask})]
    /\ UNCHANGED <<devices, next_handle, poisoned, poller, watch, shutdown,
                   attached, iters, codec, lock, calls>>

(***************************************************************************)
(* Environments.                                                           *)
(***************************************************************************)
SerialArgs == {None, Some("A")}

\* The buf_size a caller passes to rdxusb_open_device (rdxusb-event-test).
BufSizes == {TestBufSize}

\* The frames of one write_packets call: their dlc, in order; the frames of
\* different calls differ in their timestamp.
Batch(dlcs, call) == [i \in 1..Len(dlcs) |-> PublicFrame(10 * call + i, dlcs[i])]

WriteBatches == {<<1>>, <<49>>, <<1, 48>>, <<1, 49, 1>>}

Channels == 0..2

Statuses == {"ok", "short", "err"}

\* The registry under foreign calls and pollers: two slots, sessions that
\* open and end, no frame traffic.
Next ==
    \/ \E vid \in Vids, pid \in Pids, serial_number \in SerialArgs,
          close_on_dc \in BOOLEAN, buf_size \in BufSizes, list_ok \in BOOLEAN :
          open_device(vid, pid, serial_number, close_on_dc, buf_size, list_ok)
    \/ \E list_ok \in BOOLEAN : force_scan_devices(list_ok)
    \/ \E h \in Handles : close_device(h)
    \/ close_all_devices
    \/ \E h \in Handles : read_packets(h, 0, 1)
    \/ \E h \in Handles : write_packets(h, Batch(<<49>>, 1))
    \/ \E h \in Handles : PollerWake(h)
    \/ \E h \in Handles : PollerOpenFail(h)
    \/ \E h \in Handles : PollerOpenOk(h)
    \/ \E h \in Handles : PollerShutdown(h)
    \/ \E h \in Handles : PollerTeardown(h)
    \/ \E h \in Handles : BulkInComplete(h, "err", 0, 3)
    \/ \E h \in Handles : PollNext(h)
    \/ \E h \in Handles : WriteNext(h)

Spec == Init /\ [][Next]_vars

\* Frame traffic through the registry: a caller that opens one device (the
\* one with serial "A", which reports n_channels = 1) and uses the handle
\* it got, with every device on the bus.
InitIO == Init /\ attached = UsbDevices

Opened == Range(hist.issued)

OpenOne ==
    /\ hist.issued = <<>>
    /\ \E vid \in Vids, pid \in Pids, close_on_dc \in BOOLEAN,
          buf_size \in BufSizes :
          open_device(vid, pid, Some("A"), close_on_dc, buf_size, TRUE)

\* Inbound traffic.
NextIn ==
    \/ OpenOne
    \/ force_scan_devices(TRUE)
    \/ \E h \in Opened : close_device(h)
    \/ \E h \in Opened, channel \in Channels, max \in 0..2 :
          read_packets(h, channel, max)
    \/ \E h \in Handles : PollerWake(h)
    \/ \E h \in Handles : PollerOpenOk(h)
    \/ \E h \in Handles : PollerShutdown(h)
    \/ \E h \in Handles : PollerTeardown(h)
    \/ \E h \in Handles, status \in Statuses, ch \in Channels :
          BulkInComplete(h, status, ch, 3)
    \/ \E h \in Handles : PollNext(h)

SpecIn == InitIO /\ [][NextIn]_vars

\* Outbound traffic.
NextOut ==
    \/ OpenOne
    \/ force_scan_devices(TRUE)
    \/ \E h \in Opened : close_device(h)
    \/ /\ hist.n_writes < MaxWrites
       /\ \E h \in Opened, dlcs \in WriteBatches :
             write_packets(h, Batch(dlcs, hist.n_writes + 1))
    \/ \E h \in Handles : PollerWake(h)
    \/ \E h \in Handles : PollerOpenOk(h)
    \/ \E h \in Handles : PollerShutdown(h)
    \/ \E h \in Handles : PollerTeardown(h)
    \/ \E h \in Handles : WriteNext(h)
    \/ \E h \in Handles, ok \in BOOLEAN : BulkOutComplete(h, ok)

SpecOut == InitIO /\ [][NextOut]_vars

\* A host session driven directly, with small queues and both policies.
NextHost ==
    \/ \E dev_info \in UsbDevices, rx_q_size \in 1..MaxQueue,
          n_transfers \in {1, PollerTransfers}, await_on_full \in BOOLEAN :
          HostOpen(dev_info, rx_q_size, n_transfers, await_on_full)
    \/ \E status \in Statuses, ch \in Channels :
          BulkInComplete(HostTask, status, ch, 3)
    \/ PollNext(HostTask)
    \/ PollResume(HostTask)
    \/ \E channel \in Channels, max \in 1..2 : HostRead(channel, max)
    \/ HostDropChannels

SpecHost == InitIO /\ [][NextHost]_vars

\* The same program with its tasks scheduled: the task that awaits poll
\* runs whenever it can take a completion or resume its push, and the
\* program's read loop reads a channel whenever it holds a frame.
SpecFlow ==
    /\ InitIO
    /\ [][NextHost]_vars
    /\ WF_vars(PollNext(HostTask))
    /\ WF_vars(PollResume(HostTask))
    /\ \A channel \in Channels : WF_vars(\E max \in 1..2 : HostRead(channel, max))

\* Disconnect and reconnect: a caller that opens one device and then only
\* reads; the device is unplugged and plugged in again, once, and stays;
\* transfers fail only while the device is unplugged, and opening a device
\* fails only when it is not there.
\* The tasks that run are the pollers (EventLoop::new starts no other
\* task); the tokio runtime schedules every task that is ready.
\* The device of task t's session is no longer on the bus.
Unplugged(t) == \A d \in attached : d.id # sess[t].dev

\* The device poller h is about to open is not on the bus.
Absent(h) == \A d \in Range(poller[h].dev_info) : d \notin attached

NextPlug ==
    \/ OpenOne
    \/ \E h \in Opened : read_packets(h, 0, 1)
    \/ \E d \in UsbDevices : d.id \notin hist.plugged /\ Detach(d)
    \/ \E d \in UsbDevices : Attach(d)
    \/ \E h \in Handles : PollerWake(h)
    \/ \E h \in Handles : Absent(h) /\ PollerOpenFail(h)
    \/ \E h \in Handles : PollerOpenOk(h)
    \/ \E h \in Handles : PollerTeardown(h)
    \/ \E h \in Handles : BulkInComplete(h, "ok", 0, 3)
    \/ \E h \in Handles : Unplugged(h) /\ BulkInComplete(h, "err", 0, 3)
    \/ \E h \in Handles : PollNext(h)

PollerStep(h) ==
    \/ PollerWake(h)
    \/ PollerOpenOk(h)
    \/ PollerTeardown(h)
    \/ PollNext(h)

SpecPlug ==
    /\ InitIO
    /\ [][NextPlug]_vars
    /\ \A h \in Handles : WF_vars(PollerStep(h))

\* A device that sends one frame more than an inbound queue of a registry
\* session holds, to a caller that reads when it likes and a bus on which
\* the device of a live session can be unplugged; a transfer on an
\* unplugged device completes with an error.
MaxFlood == PollerQueueSize + 1

InitFlood ==
    /\ devices = [h \in {} |-> 0]
    /\ next_handle = 0
    /\ poisoned = FALSE
    /\ poller = [t \in Tasks |-> NoPoller]
    /\ watch = [h \in Handles |-> NoWatch]
    /\ shutdown = [h \in Handles |-> FALSE]
    /\ sess = [t \in Tasks |-> NoSession]
    /\ attached = UsbDevices
    /\ iters = NoIterators
    /\ codec = NoCodec
    /\ lock = NoOwner
    /\ calls = [th \in Threads |-> NoCall]
    /\ hist = [NoHistory EXCEPT !.in_limit = MaxFlood]

Unplug(h) ==
    /\ Connected(devices, h)
    /\ \E d \in attached : d.id = sess[h].dev /\ Detach(d)

TransferFails(h) == Unplugged(h) /\ BulkInComplete(h, "err", 0, 3)

NextFlood ==
    \/ OpenOne
    \/ \E h \in Opened : read_packets(h, 0, 1)
    \/ \E h \in Handles : Unplug(h)
    \/ \E h \in Handles : PollerWake(h)
    \/ \E h \in Handles : PollerOpenOk(h)
    \/ \E h \in Handles : PollerTeardown(h)
    \/ \E h \in Handles : BulkInComplete(h, "ok", 0, 3)
    \/ \E h \in Handles : TransferFails(h)
    \/ \E h \in Handles : PollNext(h)
    \/ \E h \in Handles : PollResume(h)

\* Every poller is scheduled, its pumps included, and the transfers of an
\* unplugged device do fail; nothing makes the caller read.
SpecFlood ==
    /\ InitFlood
    /\ [][NextFlood]_vars
    /\ \A h \in Handles :
          /\ WF_vars(PollerStep(h) \/ PollResume(h))
          /\ WF_vars(TransferFails(h))

\* Everything that can happen to one installed session: inbound
\* completions of every kind on every channel, writes and bulk-OUT
\* completions, rescans, and the close of the handle.
NextEnd ==
    \/ OpenOne
    \/ force_scan_devices(TRUE)
    \/ \E h \in Opened : close_device(h)
    \/ /\ hist.n_writes < MaxWrites
       /\ \E h \in Opened : write_packets(h, Batch(<<1>>, hist.n_writes + 1))
    \/ \E h \in Handles : PollerWake(h)
    \/ \E h \in Handles : PollerOpenOk(h)
    \/ \E h \in Handles : PollerShutdown(h)
    \/ \E h \in Handles : PollerTeardown(h)
    \/ \E h \in Handles, status \in Statuses, ch \in Channels :
          BulkInComplete(h, status, ch, 3)
    \/ \E h \in Handles : PollNext(h)
    \/ \E h \in Handles : WriteNext(h)
    \/ \E h \in Handles, ok \in BOOLEAN : BulkOutComplete(h, ok)

SpecEnd == InitIO /\ [][NextEnd]_vars

\* One slot through several sessions with traffic both ways: frames
\* complete on bulk-IN and are read, frames are written and transmitted,
\* transfers fail, and a rescan makes the poller open the next session.
NextTurn ==
    \/ OpenOne
    \/ force_scan_devices(TRUE)
    \/ \E h \in Opened : read_packets(h, 0, 1)
    \/ /\ hist.n_writes < MaxWrites
       /\ \E h \in Opened : write_packets(h, Batch(<<1>>, hist.n_writes + 1))
    \/ \E h \in Handles : PollerWake(h)
    \/ \E h \in Handles : PollerOpenOk(h)
    \/ \E h \in Handles : PollerTeardown(h)
    \/ \E h \in Handles, status \in {"ok", "err"} : BulkInComplete(h, status, 0, 3)
    \/ \E h \in Handles : PollNext(h)
    \/ \E h \in Handles : WriteNext(h)
    \/ \E h \in Handles, ok \in BOOLEAN : BulkOutComplete(h, ok)

SpecTurn == InitIO /\ [][NextTurn]_vars

\* A caller that passes pointers: it opens one device, reads and writes
\* with every combination of null and non-null pointers while frames
\* arrive, and lists the devices through iterators.
NextApi ==
    \/ OpenOne
    \/ \E h \in Handles : PollerWake(h)
    \/ \E h \in Handles : PollerOpenOk(h)
    \/ \E h \in Handles : BulkInComplete(h, "ok", 0, 3)
    \/ \E h \in Handles : PollNext(h)
    \/ \E h \in Opened, packets \in Ptrs, packets_read \in Ptrs :
          rdxusb_read_packets(h, 0, packets, 1, packets_read)
    \/ /\ hist.n_writes < MaxWrites
       /\ \E h \in Opened, packets \in Ptrs, packets_written \in Ptrs :
             rdxusb_write_packets(h, packets, Batch(<<1>>, hist.n_writes + 1),
                                  packets_written)
    \/ \E iter_id \in Ptrs, n_devices \in Ptrs, list_ok \in BOOLEAN :
          rdxusb_new_device_iterator(iter_id, n_devices, list_ok)
    \/ \E iter_id \in IterIds, device_idx \in 0..1, device_entry \in Ptrs :
          rdxusb_get_device_in_iterator(iter_id, device_idx, device_entry)
    \/ \E iter_id \in IterIds : rdxusb_free_device_iterator(iter_id)

SpecApi == InitIO /\ [][NextApi]_vars

\* The codec alone: a wire frame, with every field drawn from a few values
\* and with zero or non-zero bytes beyond dlc, is converted to a public
\* frame (From) and back (TryFrom).
CodecFrames ==
    {[timestamp_ns |-> ts, arb_id |-> arb_id, dlc |-> dlc, channel |-> ch,
      flags |-> flags,
      data |-> [i \in 1..FsDataLen |-> IF i <= dlc THEN fill ELSE tail]] :
        ts \in {0, 7}, arb_id \in {ArbId(0), ArbId(1)}, dlc \in {0, 3, 47, 48, 49, 255},
        ch \in 0..1, flags \in {0, 1}, fill \in {170}, tail \in {0, 85}}

InitCodec ==
    /\ \E F \in CodecFrames : codec = [NoCodec EXCEPT !.wire = Some(F)]
    /\ devices = [h \in {} |-> 0]
    /\ next_handle = 0
    /\ poisoned = FALSE
    /\ poller = [t \in Tasks |-> NoPoller]
    /\ watch = [h \in Handles |-> NoWatch]
    /\ shutdown = [h \in Handles |-> FALSE]
    /\ sess = [t \in Tasks |-> NoSession]
    /\ attached = UsbDevices
    /\ iters = NoIterators
    /\ lock = NoOwner
    /\ calls = [th \in Threads |-> NoCall]
    /\ hist = NoHistory

ToPublicStep ==
    /\ IsSome(codec.wire)
    /\ codec.public = None
    /\ codec' = [codec EXCEPT !.public = Some(ToPublic(Unwrap(codec.wire)))]
    /\ UNCHANGED <<devices, next_handle, poisoned, poller, watch, shutdown,
                   sess, attached, iters, hist, lock, calls>>

TryFromStep ==
    /\ IsSome(codec.public)
    /\ codec.back = None
    /\ codec' = [codec EXCEPT !.back = Some(TryFromPublic(Unwrap(codec.public)))]
    /\ UNCHANGED <<devices, next_handle, poisoned, poller, watch, shutdown,
                   sess, attached, iters, hist, lock, calls>>

NextCodec == ToPublicStep \/ TryFromStep

SpecCodec == InitCodec /\ [][NextCodec]_vars

\* Frames of every length in both directions: the device sends frames
\* whose dlc byte is within or beyond the payload size, the caller writes
\* batches with frames of dlc up to 49.
InDlcs == {3, 49}

NextDlc ==
    \/ OpenOne
    \/ \E h \in Opened : read_packets(h, 0, 1)
    \/ /\ hist.n_writes < MaxWrites
       /\ \E h \in Opened, dlcs \in WriteBatches :
             write_packets(h, Batch(dlcs, hist.n_writes + 1))
    \/ \E h \in Handles : PollerWake(h)
    \/ \E h \in Handles : PollerOpenOk(h)
    \/ \E h \in Handles, dlc \in InDlcs : BulkInComplete(h, "ok", 0, dlc)
    \/ \E h \in Handles : PollNext(h)
    \/ \E h \in Handles : WriteNext(h)
    \/ \E h \in Handles : BulkOutComplete(h, TRUE)

SpecDlc == InitIO /\ [][NextDlc]_vars

\* Concurrent readers: the foreign threads call read_packets on the one
\* handle and channel 0, each call running step by step, while the inbound
\* pump pushes and sessions end and are reopened.
NextRead ==
    \/ OpenOne
    \/ force_scan_devices(TRUE)
    \/ \E h \in Opened : close_device(h)
    \/ \E th \in Threads, h \in Opened, max \in 1..2 : ReadEnter(th, h, 0, max)
    \/ \E th \in Threads : ReadAcquire(th)
    \/ \E th \in Threads : ReadPeek(th)
    \/ \E th \in Threads : ReadAdvance(th)
    \/ \E th \in Threads : ReadReturn(th)
    \/ \E h \in Handles : PollerWake(h)
    \/ \E h \in Handles : PollerOpenOk(h)
    \/ \E h \in Handles : PollerShutdown(h)
    \/ \E h \in Handles : PollerTeardown(h)
    \/ \E h \in Handles, status \in {"ok", "err"} : BulkInComplete(h, status, 0, 3)
    \/ \E h \in Handles : PollNext(h)

SpecRead == InitIO /\ [][NextRead]_vars

\* The registry with the pollers running step by step: two slots that can
\* match the same device, sessions that open, fail to open and end by a
\* transfer error, a foreign thread that reads step by step (no frame
\* arrives), and close calls at any moment.
\* A task or thread that owns the mutex is running (it is at no await), so
\* it is scheduled until it releases the mutex.
LockedStep ==
    \/ \E h \in Handles : PollerInstall(h) \/ PollerClear(h)
    \/ \E th \in Threads : ReadReturn(th)

NextSteps ==
    \/ \E vid \in Vids, pid \in Pids, serial_number \in SerialArgs,
          close_on_dc \in BOOLEAN, buf_size \in BufSizes :
          open_device(vid, pid, serial_number, close_on_dc, buf_size, TRUE)
    \/ \E h \in Handles : close_device(h)
    \/ \E h \in Handles : ReadEnter(MaxHandles + 1, h, 0, 1)
    \/ \E th \in Threads : ReadAcquire(th)
    \/ \E th \in Threads : ReadReturn(th)
    \/ \E h \in Handles : PollerWake(h)
    \/ \E h \in Handles : PollerOpenFail(h)
    \/ \E h \in Handles : PollerClaim(h)
    \/ \E h \in Handles : PollerHandshakeFail(h)
    \/ \E h \in Handles : PollerOpened(h)
    \/ \E h \in Handles : PollerAcquire(h)
    \/ \E h \in Handles : PollerInstall(h)
    \/ \E h \in Handles : PollerClear(h)
    \/ \E h \in Handles : PollerShutdown(h)
    \/ \E h \in Handles : BulkInComplete(h, "err", 0, 3)
    \/ \E h \in Handles : PollNext(h)

SpecSteps == InitIO /\ [][NextSteps]_vars /\ WF_vars(LockedStep)

\* The steps of poller h that need no mutex: a spawned task that can run is
\* run by the runtime.
PollerRun(h) ==
    \/ PollerWake(h)
    \/ PollerOpenFail(h)
    \/ PollerClaim(h)
    \/ PollerHandshakeFail(h)
    \/ PollerOpened(h)
    \/ PollerShutdown(h)
    \/ PollNext(h)

\* The same program with every poller scheduled: a task that can run does
\* run, and a task blocked in lock() gets the mutex at some release.
SpecClose ==
    /\ InitIO
    /\ [][NextSteps]_vars
    /\ WF_vars(LockedStep)
    /\ \A h \in Handles : WF_vars(PollerRun(h)) /\ SF_vars(PollerAcquire(h))

(***************************************************************************)
(* Properties.                                                             *)
(***************************************************************************)
StrictlyIncreasing(s) == \A i, j \in 1..Len(s) : i < j => s[i] < s[j]

\* a is a subsequence of b, in the same relative order.
RECURSIVE IsSubseq(_, _)
IsSubseq(a, b) ==
    IF a = <<>> THEN TRUE
    ELSE IF b = <<>> THEN FALSE
    ELSE IF Head(a) = Head(b) THEN IsSubseq(Tail(a), Tail(b))
    ELSE IsSubseq(a, Tail(b))

OnChannel(s, c) == SelectSeq(s, LAMBDA f : f.channel = c)

Without(s, gone) == SelectSeq(s, LAMBDA f : f \notin Range(gone))

\* The public form of a sequence of wire frames: the same header, the 48
\* data bytes, then 16 zero bytes.
Public(s) ==
    [i \in 1..Len(s) |->
        [timestamp_ns |-> s[i].timestamp_ns, arb_id |-> s[i].arb_id,
         dlc |-> s[i].dlc, channel |-> s[i].channel, flags |-> s[i].flags,
         data |-> [k \in 1..64 |-> IF k <= 48 THEN s[i].data[k] ELSE 0]]]

\* What channel c's inbound queue of task t holds.
Queued(t, c) == IF c < Len(sess[t].rx) THEN sess[t].rx[c + 1] ELSE <<>>

\* A probe frame for write_packets.
Probe == Batch(<<1>>, 1)

\* C1: for a handle h returned by open_device, close_device(h) returns 0,
\* and after it every read_packets(h, ...) and write_packets(h, ...)
\* returns -200, whatever the slot's poller was doing at the close.
C1_ClosedHandleNotOpened ==
    /\ \A h \in DOMAIN devices : close_device_ret(h) = 0
    /\ \A h \in hist.closed :
          /\ ReadResult(h, 0, 1).ret = -200
          /\ WriteResult(h, Probe).ret = -200

\* C2: handles come from a counter that starts at 0 and advances by one per
\* new slot: each new slot's handle is greater than every earlier one, and
\* no handle that was removed (by close_device, close_all_devices or
\* close_on_disconnect) is assigned to a later slot.
C2_HandlesNeverReused ==
    /\ \A i \in 1..Len(hist.issued) : hist.issued[i] = i - 1
    /\ StrictlyIncreasing(hist.issued)
    /\ \A i \in 1..Len(hist.issued) :
          \A h \in hist.closed_before[i] : h < hist.issued[i]
    /\ \A h \in hist.removed \cup DOMAIN devices \cup Range(hist.issued) :
          h < next_handle

\* A second slot was created after the first one had been removed.
C2_SlotAfterClose ==
    /\ Len(hist.issued) = 2
    /\ hist.closed_before[2] = {0}
    /\ 1 \in DOMAIN devices

\* C3: close_device on a handle that is not in the registry returns 0 and
\* leaves the handle table, the counter and every session unchanged;
\* closing a handle twice leaves the registry as closing it once does.
C3_CloseUnknownIsNoop ==
    \A h \in Handles :
       /\ h \notin DOMAIN devices =>
             /\ close_device_ret(h) = 0
             /\ Remove(devices, CloseTargets(devices, h)) = devices
             /\ Reap(DropChans(sess, CloseTargets(devices, h))) = sess
             /\ NotifyOne(shutdown, CloseTargets(devices, h)) = shutdown
       /\ LET once == Remove(devices, CloseTargets(devices, h))
          IN  /\ close_device_ret(h) = 0
              /\ Remove(once, CloseTargets(once, h)) = once

\* C4: open_device on a request that a registered slot matches (same vid
\* and pid, and the slot has no serial or the request's serial) returns
\* that slot's handle; on a request no slot matches it returns the fresh
\* handle, the value of the counter.
C4_OpenReturnsHandle ==
    \A vid \in Vids, pid \in Pids, serial_number \in SerialArgs, list_ok \in BOOLEAN :
       LET hit == {h \in DOMAIN devices :
                     /\ devices[h].vid = vid
                     /\ devices[h].pid = pid
                     /\ \/ devices[h].serial_number = None
                        \/ devices[h].serial_number = serial_number}
       IN  IF hit # {}
           THEN open_device_ret(vid, pid, serial_number, list_ok) \subseteq hit
           ELSE open_device_ret(vid, pid, serial_number, list_ok) = {next_handle}

\* C5 (as amended): on every channel the frames read_packets returned,
\* followed by the frames still queued, are the frames the sessions pushed
\* less those that were buffered when a session was cleared or the handle
\* was closed: no frame is read twice or out of push order, and a frame is
\* lost only by being buffered at that moment.
C5_ReadOnceInOrderUnlessCleared ==
    \A h \in Handles, c \in Channels :
       Public(Without(OnChannel(hist.log[h].pushed, c), hist.log[h].lost))
          = OnChannel(hist.log[h].read, c) \o Public(Queued(h, c))

\* A frame was lost at the end of a session of a handle that is still open
\* and that has returned another frame to a read.
C5_LostAndRead ==
    \E h \in DOMAIN devices :
       /\ hist.log[h].lost # <<>>
       /\ hist.log[h].read # <<>>
       /\ h \notin hist.removed

\* C5 (as stated): while the handle stays open every pushed frame is read
\* once, in push order, or is still queued for a read, including the
\* frames buffered when the session ends by a transfer error.
C5_NoFrameLostWhileOpen ==
    \A h \in DOMAIN devices, c \in Channels :
       Public(OnChannel(hist.log[h].pushed, c))
          = OnChannel(hist.log[h].read, c) \o Public(Queued(h, c))

\* C6: for each channel, the frames returned by successive reads of the
\* channel are a subsequence, in the same relative order, of the frames of
\* that channel as they completed on bulk-IN, under await-on-full and
\* under drop-on-full, with one or several transfers outstanding.
C6_ReadOrderIsCompletionOrder ==
    \A t \in Tasks, c \in Channels :
       IsSubseq(OnChannel(hist.log[t].read, c),
                Public(OnChannel(hist.log[t].completed, c)))

\* Under drop-on-full with several transfers outstanding, a channel
\* returned two frames of three that completed.
C6_GapUnderDropOnFull ==
    \E t \in Tasks, c \in Channels :
       /\ ~sess[t].await_on_full
       /\ sess[t].n_transfers > 1
       /\ Len(OnChannel(hist.log[t].read, c)) = 2
       /\ Len(OnChannel(hist.log[t].completed, c)) = 3

\* C7: within one session the frames write_packets accepted are submitted
\* as bulk-OUT transfers in queue-insertion order, one in flight at a time,
\* none twice and none skipped: the frames submitted so far followed by the
\* frames still queued are the frames accepted, and the transfer in flight
\* carries the frame submitted last.
C7_SentInAcceptedOrder ==
    \A h \in Handles :
       sess[h].host =>
          /\ hist.log[h].accepted = hist.log[h].sent \o sess[h].tx
          /\ \A i, j \in 1..Len(hist.log[h].sent) :
                i # j => hist.log[h].sent[i] # hist.log[h].sent[j]
          /\ IsSome(sess[h].out_pkt) =>
                /\ hist.log[h].sent # <<>>
                /\ Unwrap(sess[h].out_pkt) = hist.log[h].sent[Len(hist.log[h].sent)]

\* Two frames of a session were submitted while a third is queued behind a
\* transfer in flight.
C7_TwoSentOneQueued ==
    \E h \in Handles :
       /\ sess[h].host
       /\ Len(hist.log[h].sent) = 2
       /\ IsSome(sess[h].out_pkt)
       /\ sess[h].tx # <<>>

\* The frames of a batch that precede its first frame with dlc > 48.
RECURSIVE BeforeOversize(_)
BeforeOversize(packets) ==
    IF packets = <<>> \/ Head(packets).dlc > 48 THEN <<>>
    ELSE <<Head(packets)>> \o BeforeOversize(Tail(packets))

\* C8: write_packets on a connected handle enqueues the frames that precede
\* the first frame with dlc > 48 (as far as the queue has room) and nothing
\* else, returns 0 and reports their number in written_out.
C8_OversizeStopsTheBatch ==
    \A h \in Handles, dlcs \in WriteBatches :
       Connected(devices, h) =>
          LET r == WriteResult(h, Batch(dlcs, 1))
              fit == BeforeOversize(Batch(dlcs, 1))
              room == sess[h].tx_cap - Len(sess[h].tx)
              k == IF Len(fit) <= room THEN Len(fit) ELSE room
          IN  /\ r.ret = 0
              /\ r.n = Some(k)
              /\ Len(r.q) = Len(sess[h].tx) + k
              /\ \A i \in 1..Len(r.q) : r.q[i].dlc <= 48

\* The n_channels the device of task t's session reports.
Reported(t) == (CHOOSE d \in UsbDevices : d.id = sess[t].dev).n_channels

\* C9: a session on a device that reports n_channels = n has exactly n
\* inbound queues, and read_packets with max >= 1 on a connected handle and
\* a channel >= n (channel = n included) returns -202 and leaves *read_out
\* unchanged.
C9_ChannelAtLeastNOutOfRange ==
    \A h \in Handles :
       Connected(devices, h) =>
          /\ Len(sess[h].rx) = Reported(h)
          /\ \A channel \in Channels : channel >= Reported(h) =>
                /\ ReadResult(h, channel, 1).ret = -202
                /\ ReadResult(h, channel, 1).n = None

\* C10: on a handle that is open but has no live session read_packets and
\* write_packets return -201 and leave *read_out / *written_out unchanged.
C10_NoSessionNotConnected ==
    \A h \in DOMAIN devices :
       ~IsSome(devices[h].handle) =>
          /\ ReadResult(h, 0, 1).ret = -201
          /\ ReadResult(h, 0, 1).n = None
          /\ WriteResult(h, Probe).ret = -201
          /\ WriteResult(h, Probe).n = None

\* C11: when the session of a slot opened with close_on_disconnect = false
\* has ended by a transfer error and the handle was not closed, the handle
\* stays valid (no operation returns -200), read_packets returns 0 (with no
\* frame, once the session is cleared) rather than an error, and the poller
\* is waiting for a descriptor, opening, or running a new session.
C11_ReadsZeroFramesAfterDisconnect ==
    \A h \in DOMAIN devices :
       (h \in hist.ended /\ ~poller[h].close_on_dc) =>
          /\ ReadResult(h, 0, 1).ret = 0
          /\ WriteResult(h, Probe).ret # -200
          /\ poller[h].pc \in {"ended", "wait", "opening", "running"}

\* C12: a hotplug watcher runs from the first initialisation on, so that
\* once a slot's session was lost and a matching device was plugged in
\* again, the slot eventually has a session again, with no open_device and
\* no force_scan_devices call in between.
C12_ReattachReconnects ==
    \A h \in Handles :
       (/\ h \in DOMAIN devices
        /\ h \in hist.ended
        /\ \E d \in attached :
              d.id \in hist.plugged /\ matches_device_info(devices[h], d))
          ~> (Connected(devices, h) \/ h \notin DOMAIN devices)

\* C13: once the first session of a slot opened with close_on_disconnect =
\* true has ended by a transfer error and the poller has handled it, the
\* slot is gone from the registry, the poller has returned, it holds no
\* session, and read_packets and write_packets on the handle return -200; a
\* slot opened with close_on_disconnect = false leaves the registry only by
\* a close call.
C13_CloseOnDisconnectRemovesSlot ==
    \A h \in Handles :
       /\ (h \in hist.ended /\ poller[h].close_on_dc /\ poller[h].pc # "ended") =>
             /\ h \notin DOMAIN devices
             /\ poller[h].pc = "done"
             /\ ~sess[h].host
             /\ ReadResult(h, 0, 1).ret = -200
             /\ WriteResult(h, Probe).ret = -200
       /\ (h \in hist.removed /\ ~poller[h].close_on_dc) => h \in hist.closed

\* The buf_size that was passed to the open_device call that created slot h.
BufSizeOf(h) == hist.buf_size[h + 1]

\* C14: in a session of slot h every inbound per-channel queue and the
\* outbound queue have the capacity buf_size that was passed to open_device
\* for the slot: a queue is full exactly when it holds buf_size frames.
C14_QueueCapacityIsBufSize ==
    \A h \in Handles :
       Connected(devices, h) =>
          /\ sess[h].rx_cap = BufSizeOf(h)
          /\ sess[h].tx_cap = BufSizeOf(h)
          /\ \A i \in 1..Len(sess[h].rx) :
                IsFull(sess[h].rx[i], sess[h].rx_cap)
                   <=> Len(sess[h].rx[i]) >= BufSizeOf(h)
          /\ IsFull(sess[h].tx, sess[h].tx_cap) <=> Len(sess[h].tx) >= BufSizeOf(h)

Min(a, b) == IF a <= b THEN a ELSE b

\* C15: read_packets on a connected handle and a channel the device has
\* returns 0 at once, with *read_out = k, where k is max or the number of
\* frames queued on the channel, whichever is smaller (0 for an empty
\* queue); out[0..k) are the k oldest frames of the queue in queue order,
\* and the queue keeps the rest.
C15_ReadNeverWaits ==
    \A h \in Handles, channel \in Channels, max \in 0..2 :
       (Connected(devices, h) /\ channel < Reported(h)) =>
          LET r == ReadResult(h, channel, max)
              q == sess[h].rx[channel + 1]
              k == Min(max, Len(q))
          IN  /\ r.ret = 0
              /\ r.n = Some(k)
              /\ r.out = Public(SubSeq(q, 1, k))
              /\ max > 0 => r.q = SubSeq(q, k + 1, Len(q))

\* The wire form of the first k frames of a batch of public frames.
Wire(packets, k) == [i \in 1..k |-> FromPublic(packets[i])]

\* C16: write_packets on a connected handle returns 0 at once, having
\* appended to the outbound queue the longest prefix of the input for which
\* the queue has room (the try_send loop over a queue of any capacity stops
\* at the first frame that finds it full); it reports the number appended in
\* *written_out when written_out is non-null, and with a null written_out
\* it appends the same frames and reports nothing.
C16_WriteNeverWaits ==
    LET frames == Batch(<<1, 48>>, 1) IN
    /\ \A cap \in 0..3 :
          WriteLoop(<<>>, cap, frames, 0)
             = [q |-> Wire(frames, Min(2, cap)), written |-> Min(2, cap)]
    /\ \A h \in Handles, packets_written \in Ptrs :
          Connected(devices, h) =>
             LET r == rdxusb_write_packets_ret(h, "buf", frames, packets_written)
                 k == Min(2, sess[h].tx_cap - Len(sess[h].tx))
             IN  /\ r.ret = 0
                 /\ r.q = sess[h].tx \o Wire(frames, k)
                 /\ r.n = IF packets_written = NULL THEN None ELSE Some(k)

\* What a call may change besides the record of rejected calls.
ProgramState ==
    <<devices, next_handle, poisoned, poller, watch, shutdown, sess, attached,
      iters, codec, lock, calls, hist.log, hist.n_writes>>

\* C17: an entry point called with a null pointer for an argument that
\* must not be null (out or read_out of read_packets, in of write_packets,
\* iter_out or n_out of new_device_iterator, out of get_device_in_iterator)
\* returns -104 and writes through no pointer, and the call changes no
\* state: no queue, no session, no iterator.
C17_NullPointerRejected ==
    /\ [](/\ \A h \in Handles, channel \in Channels, max \in 0..2,
                packets \in Ptrs, packets_read \in Ptrs :
                (packets = NULL \/ packets_read = NULL) =>
                   rdxusb_read_packets_ret(h, channel, packets, max, packets_read)
                      = -104
          /\ \A h \in Handles, packets_written \in Ptrs :
                rdxusb_write_packets_ret(h, NULL, Probe, packets_written)
                   = [ret |-> -104, n |-> None, q |-> <<>>]
          /\ \A iter_id \in Ptrs, n_devices \in Ptrs, list_ok \in BOOLEAN :
                (iter_id = NULL \/ n_devices = NULL) =>
                   rdxusb_new_device_iterator_ret(iter_id, n_devices, list_ok, <<>>)
                      = [ret |-> -104, iter_id |-> None, n_devices |-> None]
          /\ \A iter_id \in IterIds, device_idx \in 0..1 :
                rdxusb_get_device_in_iterator_ret(iter_id, device_idx, NULL)
                   = [ret |-> -104, entry |-> None])
    /\ [][hist.null_call' # hist.null_call => UNCHANGED ProgramState]_vars

\* read_packets was called with a null pointer on a connected handle that
\* has a frame queued, with an iterator allocated.
C17_NullReadWithFrameQueued ==
    /\ hist.null_call.entry = "read_packets"
    /\ \E h \in Handles : Connected(devices, h) /\ Queued(h, 0) # <<>>
    /\ DOMAIN iters.info_map # {}

\* C18 (as amended): for a wire frame F with dlc <= 48, converting F to a
\* public frame and back succeeds and yields F's timestamp, arb_id, dlc,
\* channel and flags and F's first dlc payload bytes, with every payload
\* byte at a position >= dlc zero, so the result equals F exactly when F's
\* bytes beyond dlc are zero; for dlc > 48 the conversion back fails and
\* hands the public frame back.  The public frame carries all 48 payload
\* bytes of F.
C18_RoundTripKeepsDlcBytes ==
    (IsSome(codec.public) /\ IsSome(codec.back)) =>
       LET F == Unwrap(codec.wire)
           P == Unwrap(codec.public)
           r == Unwrap(codec.back)
       IN  /\ \A i \in 1..48 : P.data[i] = F.data[i]
           /\ r.ok <=> F.dlc <= 48
           /\ ~r.ok => r.frame = P
           /\ r.ok =>
                 /\ r.frame.timestamp_ns = F.timestamp_ns
                 /\ r.frame.arb_id = F.arb_id
                 /\ r.frame.dlc = F.dlc
                 /\ r.frame.channel = F.channel
                 /\ r.frame.flags = F.flags
                 /\ \A i \in 1..48 :
                       r.frame.data[i] = IF i <= F.dlc THEN F.data[i] ELSE 0
                 /\ r.frame = F <=> \A i \in 1..48 : i > F.dlc => F.data[i] = 0

\* A frame with dlc 3 and non-zero bytes beyond dlc went there and back and
\* came back different.
C18_TailBytesZeroed ==
    /\ IsSome(codec.back)
    /\ Unwrap(codec.wire).dlc = 3
    /\ Unwrap(codec.wire).data[4] = 85
    /\ Unwrap(codec.back).ok
    /\ Unwrap(codec.back).frame.data[4] = 0
    /\ Unwrap(codec.back).frame # Unwrap(codec.wire)

\* C18 (as stated): for every wire frame F, non-zero bytes beyond dlc
\* included, converting F to a public frame and back succeeds and yields a
\* frame equal to F in every field.
C18_RoundTripIsIdentity ==
    IsSome(codec.back) =>
       /\ Unwrap(codec.back).ok
       /\ Unwrap(codec.back).frame = Unwrap(codec.wire)

\* C19: every frame on the wire path has dlc <= 48, in both directions: the
\* frames in an inbound per-channel queue, the frames read_packets returned,
\* the frames in the outbound queue and the frames submitted on bulk-OUT.
C19_DlcAtMost48 ==
    \A t \in Tasks :
       /\ \A i \in 1..Len(sess[t].rx) :
             \A k \in 1..Len(sess[t].rx[i]) : sess[t].rx[i][k].dlc <= 48
       /\ \A k \in 1..Len(hist.log[t].read) : hist.log[t].read[k].dlc <= 48
       /\ \A k \in 1..Len(sess[t].tx) : sess[t].tx[k].dlc <= 48
       /\ \A k \in 1..Len(hist.log[t].sent) : hist.log[t].sent[k].dlc <= 48
       /\ \A f \in Range(sess[t].out_pkt) : f.dlc <= 48

\* C20: close_all_devices returns 0, notifies the shutdown of every
\* registered slot and removes every handle; after it read_packets and
\* write_packets on every handle that had been returned before return -200,
\* and the handle counter was not reset: an open_device call returns a
\* handle greater than all of them.
C20_CloseAllRemovesEveryHandle ==
    /\ close_all_devices_ret = 0
    /\ \A h \in DOMAIN devices : NotifyOne(shutdown, DOMAIN devices)[h]
    /\ DOMAIN Remove(devices, DOMAIN devices) = {}
    /\ \A h \in hist.all_closed :
          /\ h \notin DOMAIN devices
          /\ ReadResult(h, 0, 1).ret = -200
          /\ WriteResult(h, Probe).ret = -200
          /\ h < next_handle
          /\ \A vid \in Vids, pid \in Pids, serial_number \in SerialArgs :
                \A r \in open_device_ret(vid, pid, serial_number, TRUE) : r > h

NoDuplicates(s) == \A i, j \in 1..Len(s) : i # j => s[i] # s[j]

\* The threads that own the mutex according to their position.
InCall == {th \in Threads : calls[th].pc \in {"loop", "pop"}}

\* C21: a frame that entered an inbound per-channel queue is returned by at
\* most one read_packets call, also when several foreign threads call
\* read_packets on the same handle and channel while the inbound pump is
\* pushing: no frame appears twice among the frames returned, every frame
\* returned had been pushed, a frame that was returned is no longer queued
\* (but for the one frame a call is just popping), and at most one thread
\* is inside the loop of read_packets.
C21_FrameReadAtMostOnce ==
    /\ \A t \in Tasks :
          /\ NoDuplicates(hist.log[t].read)
          /\ Range(hist.log[t].read) \subseteq Range(Public(hist.log[t].pushed))
          /\ \A c \in Channels : \A k \in 1..Len(Queued(t, c)) :
                ToPublic(Queued(t, c)[k]) \in Range(hist.log[t].read) =>
                   /\ k = 1
                   /\ \E th \in Threads :
                         /\ calls[th].pc = "pop"
                         /\ calls[th].handle_id = t
                         /\ calls[th].channel = c
    /\ Cardinality(InCall) <= 1
    /\ \A th \in InCall : lock = th

\* One thread is popping the second frame of its call while the other
\* waits for the mutex and the pump has a third frame to push.
C21_TwoReadersOnePump ==
    \E th \in Threads, other \in Threads, h \in Handles :
       /\ calls[th].pc = "pop"
       /\ calls[th].handle_id = h
       /\ Len(calls[th].out) = 2
       /\ calls[other].pc = "lock"
       /\ Len(hist.log[h].read) = 2
       /\ sess[h].bulk_in # <<>>
       /\ Len(hist.log[h].pushed) = 2

\* The frames of channel c that completed on bulk-IN for task t and that
\* poll has taken from the bulk-IN queue.
Polled(t, c) ==
    LET done == OnChannel(hist.log[t].completed, c)
        pending == SelectSeq(sess[t].bulk_in,
                             LAMBDA x : x.status = "ok" /\ x.pkt.channel = c)
    IN  SubSeq(done, 1, Len(done) - Len(pending))

\* The frame of channel c the suspended push of task t holds.
Held(t, c) ==
    IF IsSome(sess[t].in_pkt) /\ Unwrap(sess[t].in_pkt).channel = c
    THEN sess[t].in_pkt ELSE <<>>

\* C22: when more inbound frames complete on one channel than its queue can
\* hold before any read, then under drop-on-full the queue holds exactly the
\* oldest capacity-many of them (the frames that found it full are
\* discarded), and under await-on-full the pump is suspended holding the
\* next frame and none is discarded: the frames taken so far are, in order,
\* those read, those queued and the one held; and as the reader drains the
\* queue every frame that completed is eventually read.
C22_OverflowPolicies ==
    /\ [](\A t \in Tasks, c \in Channels :
            (sess[t].chans /\ c < Len(sess[t].rx)) =>
               /\ Len(Queued(t, c)) <= sess[t].rx_cap
               /\ (~sess[t].await_on_full /\ OnChannel(hist.log[t].read, c) = <<>>) =>
                     /\ Queued(t, c) =
                           SubSeq(Polled(t, c), 1,
                                  Min(sess[t].rx_cap, Len(Polled(t, c))))
                     /\ Held(t, c) = <<>>
               /\ sess[t].await_on_full =>
                     /\ Public(Polled(t, c)) =
                           OnChannel(hist.log[t].read, c)
                              \o Public(Queued(t, c) \o Held(t, c))
                     /\ (Held(t, c) # <<>> /\ OnChannel(hist.log[t].read, c) = <<>>) =>
                           IsFull(Queued(t, c), sess[t].rx_cap))
    /\ \A c \in Channels, n \in 1..MaxIn :
          (/\ sess[HostTask].chans
           /\ sess[HostTask].await_on_full
           /\ c < Len(sess[HostTask].rx)
           /\ Len(OnChannel(hist.log[HostTask].completed, c)) >= n)
             ~> (\/ ~sess[HostTask].chans
                 \/ Len(OnChannel(hist.log[HostTask].read, c)) >= n)

\* Under await-on-full three frames completed on channel 0 before any read:
\* the queue of capacity 2 holds the first two and the pump is suspended
\* holding the third.
C22_PumpSuspendedOnFullQueue ==
    /\ sess[HostTask].await_on_full
    /\ sess[HostTask].rx_cap = 2
    /\ Len(OnChannel(hist.log[HostTask].completed, 0)) = 3
    /\ hist.log[HostTask].read = <<>>
    /\ Len(Queued(HostTask, 0)) = 2
    /\ Held(HostTask, 0) # <<>>

\* C23: a frame returned by read_packets carries the timestamp, arb_id (flag
\* bits included), dlc, channel and flags of the wire frame that completed
\* on bulk-IN; its first 48 payload bytes are the wire payload and its last
\* 16 are zero; the effective id is the low 29 bits of arb_id and the
\* extended / RTR / device flags are its bits 31 / 30 / 29.  The frame
\* {ts 1, arb_id 0x80000123, dlc 3, data AA AA AA ..} is read with dlc 3,
\* those three bytes, effective id 0x123 and the extended flag.
C23_ReadFrameIsWireFrame ==
    \A t \in Tasks : \A i \in 1..Len(hist.log[t].read) :
       LET out == hist.log[t].read[i]
           W == {w \in Range(hist.log[t].completed) :
                    w.timestamp_ns = out.timestamp_ns}
       IN  /\ Cardinality(W) = 1
           /\ \A w \in W :
                 /\ out.arb_id = w.arb_id
                 /\ out.dlc = w.dlc
                 /\ out.channel = w.channel
                 /\ out.flags = w.flags
                 /\ DOMAIN out.data = 1..64
                 /\ \A k \in 1..48 : out.data[k] = w.data[k]
                 /\ \A k \in 49..64 : out.data[k] = 0
                 /\ effective_id(out) = <<w.arb_id[1], w.arb_id[2], w.arb_id[3],
                                          w.arb_id[4] % 32>>
                 /\ is_extended(out) <=> w.arb_id[4] \div 128 = 1
                 /\ is_rtr(out) <=> (w.arb_id[4] \div 64) % 2 = 1
                 /\ is_device(out) <=> (w.arb_id[4] \div 32) % 2 = 1
           /\ out.timestamp_ns = 1 =>
                 /\ out.arb_id = <<35, 1, 0, 128>>
                 /\ out.dlc = 3
                 /\ \A k \in 1..3 : out.data[k] = 170
                 /\ effective_id(out) = <<35, 1, 0, 0>>
                 /\ is_extended(out) /\ ~is_rtr(out) /\ ~is_device(out)

\* Three frames were read from one handle: one with the extended flag, one
\* with the RTR flag, one with the device flag, each with non-zero payload
\* bytes beyond its dlc.
C23_ThreeFlaggedFramesRead ==
    \E t \in Tasks :
       /\ Len(hist.log[t].read) = 3
       /\ \E i \in 1..3 : is_extended(hist.log[t].read[i])
       /\ \E i \in 1..3 : is_rtr(hist.log[t].read[i])
       /\ \E i \in 1..3 : is_device(hist.log[t].read[i])
       /\ \A i \in 1..3 : hist.log[t].read[i].data[48] = 85

\* C24: each slot has at most one live session, and Device.handle (the
\* slot's current session) is set and cleared only by the slot's own
\* poller: while the poller waits for a descriptor or starts an open, the
\* slot has no session and nothing of a previous one is left; the session
\* installed in the registry is the one its poller opened last; a poller
\* claims an interface only when its previous session is cleared; and a
\* step that changes the handle field of a slot that stays registered is
\* the install or the clear step of that slot's poller, owning the mutex.
C24_OneSessionPerSlot ==
    /\ [](\A h \in Handles :
            /\ poller[h].pc \in {"none", "wait", "opening"} =>
                  /\ sess[h] = NoSession
                  /\ h \in DOMAIN devices => devices[h].handle = None
            /\ Connected(devices, h) =>
                  /\ sess[h].chans
                  /\ Unwrap(devices[h].handle).device_id = sess[h].dev
                  /\ poller[h].pc \in {"running", "ended", "clearing", "panicked"})
    /\ [][\A h \in Handles :
            /\ (sess'[h].host /\ ~sess[h].host) =>
                  /\ sess[h] = NoSession
                  /\ poller[h].pc = "opening"
                  /\ ~Connected(devices, h)
            /\ (/\ h \in DOMAIN devices
                /\ h \in DOMAIN devices'
                /\ devices'[h].handle # devices[h].handle) =>
                  /\ lock = h
                  /\ lock' = NoOwner
                  /\ \/ /\ poller[h].pc = "installing"
                        /\ poller'[h].pc = "running"
                        /\ devices[h].handle = None
                     \/ /\ poller[h].pc = "clearing"
                        /\ poller'[h].pc = "wait"
                        /\ devices'[h].handle = None]_vars

\* A slot whose first session ended by a transfer error is running its
\* second session while the other slot's poller is in the handshake.
C24_SecondSessionRunning ==
    \E h \in Handles, other \in Handles :
       /\ h \in hist.ended
       /\ Connected(devices, h)
       /\ poller[h].pc = "running"
       /\ poller[other].pc \in {"opening", "handshake"}

\* C26: no task is suspended at an await while it owns the registry mutex.
\* The mutex is owned by a poller exactly while it is between
\* acquire_event_loop() and the end of the block that installs or clears
\* the session, and by a foreign thread exactly while it is inside its
\* call; a poller that waits for a descriptor, for the handshake, for its
\* pumps or for the mutex does not own it; the owner always has a step to
\* take, and the mutex is always released again, so that no caller waits
\* for the duration of a transfer and no deadlock is reachable.
C26_NoLockAcrossAwait ==
    /\ [](/\ lock \in {NoOwner} \cup Handles \cup Threads
          /\ \A h \in Handles :
                /\ lock = h <=> poller[h].pc \in {"installing", "clearing"}
                /\ lock = h => ENABLED (PollerInstall(h) \/ PollerClear(h))
          /\ \A th \in Threads :
                /\ lock = th <=> calls[th].pc \in {"loop", "pop"}
                /\ lock = th =>
                      ENABLED (ReadPeek(th) \/ ReadAdvance(th) \/ ReadReturn(th)))
    /\ (lock # NoOwner) ~> (lock = NoOwner)

\* A poller owns the mutex while a foreign thread and the other poller
\* wait for it.
C26_PollerOwnsTwoWait ==
    \E h \in Handles, other \in Handles, th \in Threads :
       /\ lock = h
       /\ poller[h].pc = "clearing"
       /\ poller[other].pc = "install"
       /\ calls[th].pc = "lock"

\* C25: the interface a session claimed is released on every exit path:
\* while the poller of a slot waits for a descriptor, or has ended (by
\* shutdown, by close_on_dc or by a panic), neither the task (host, write
\* pump) nor the registry (the channels of the slot's OpenDevice) holds the
\* interface, and the registry has no session for the slot.
C25_InterfaceReleasedOnExit ==
    \A h \in Handles :
       poller[h].pc \in {"wait", "done", "panicked"} =>
          /\ ~HoldsInterface(h)
          /\ ~Connected(devices, h)

\* What C27 says of the pollers once close_device(h) has been carried out:
\* the poller of h ends (by returning, or by the panic of a task that finds
\* its slot gone), slot h never comes back, and no step of that poller
\* changes the registry.
AfterClose ==
    /\ [](\A h \in hist.closed : h \notin DOMAIN devices)
    /\ \A h \in Handles :
          (h \in hist.closed) ~> (poller[h].pc \in {"done", "panicked"})
    /\ [][\A h \in hist.closed :
             poller'[h] # poller[h] => devices' = devices]_vars

\* C27: close_device(h) on a registered handle is carried out (it fires the
\* shutdown notification and removes the slot), and after it the poller of
\* h eventually ends, from whichever point it was at, without installing
\* or clearing a session and without removing a registry entry.
C27_CloseEndsPoller ==
    /\ [](\A h \in DOMAIN devices : close_device_ret(h) = ERR_NONE)
    /\ AfterClose

\* C28: once the device of a live session is off the bus, the session ends
\* and is cleared without any call of the program: read_packets on the
\* handle comes to return -201 (or, for a close_on_dc slot, the slot is
\* removed), also when the inbound pump is suspended on a full queue and
\* nothing is queued for sending.
C28_DisconnectEndsSession ==
    \A h \in Handles :
       (Connected(devices, h) /\ poller[h].pc = "running" /\ Unplugged(h))
          ~> (\/ ReadResult(h, 0, 1).ret = ERR_DEVICE_NOT_CONNECTED
              \/ h \notin DOMAIN devices)

\* C29: a poller starts an open only from its wait for the watch, on a
\* change it has not seen yet whose value is a descriptor; it opens with
\* the value the watch holds then (the one published last) and marks the
\* change seen, so that one change gives one attempt; and a session that
\* ends on a slot that stays, with a descriptor published meanwhile, is
\* followed by an open attempt.
C29_OpenOnObservedChange ==
    /\ [][\A h \in Handles :
             (poller'[h].pc = "opening" /\ poller[h].pc # "opening") =>
                /\ poller[h].pc = "wait"
                /\ watch[h].changed
                /\ IsSome(watch[h].val)
                /\ poller'[h].dev_info = watch[h].val
                /\ ~watch'[h].changed]_vars
    /\ \A h \in Handles :
          (/\ poller[h].pc = "ended"
           /\ ~poller[h].close_on_dc
           /\ watch[h].changed
           /\ IsSome(watch[h].val))
             ~> (poller[h].pc = "opening" \/ h \in hist.closed)

\* C30: a failed open (no claim, or a failed handshake after the claim)
\* takes the poller back to its wait, changes nothing in the registry
\* (no session installed, the slot kept, also with close_on_dc) and leaves
\* nothing claimed; a registered handle answers -201 for as long as its
\* poller has not installed a session; and a session is installed only by
\* a poller that holds the mutex after its claim and its handshake
\* succeeded and its queues were built.
C30_FailedOpenInstallsNothing ==
    /\ [](\A h \in DOMAIN devices :
            poller[h].pc \in {"wait", "opening", "handshake", "install",
                              "installing"} =>
               ReadResult(h, 0, 1).ret = ERR_DEVICE_NOT_CONNECTED)
    /\ [][\A h \in Handles :
             /\ (/\ poller[h].pc \in {"opening", "handshake"}
                 /\ poller'[h].pc \notin {"opening", "handshake", "install"}) =>
                   /\ poller'[h].pc = "wait"
                   /\ devices' = devices
                   /\ sess'[h] = NoSession
             /\ (Connected(devices', h) /\ ~Connected(devices, h)) =>
                   /\ poller[h].pc = "installing"
                   /\ sess[h].host
                   /\ sess[h].chans
                   /\ sess[h].rx # <<>>]_vars

\* The watch of slot h was sent to in this step: its value changed, or its
\* change flag was raised.
SentTo(h) ==
    \/ watch'[h].val # watch[h].val
    \/ watch'[h].changed /\ ~watch[h].changed

\* C31: a descriptor is published on the watch of a slot only if it is the
\* descriptor of a device on the bus with the slot's vid and pid and, when
\* the slot has a serial number, with that serial number; so a slot that
\* matches no device on the bus is sent nothing; and a step that publishes
\* leaves every session, and the handle field of every slot it does not
\* create, as it was.
C31_PublishOnlyOnMatch ==
    [][\A h \in Handles :
          SentTo(h) =>
             /\ h \in DOMAIN devices'
             /\ IsSome(watch'[h].val)
             /\ LET d == Unwrap(watch'[h].val)
                    slot == devices'[h]
                IN  /\ d \in attached
                    /\ slot.vid = d.vid
                    /\ slot.pid = d.pid
                    /\ slot.serial_number = None \/ slot.serial_number = d.serial
             /\ sess' = sess
             /\ \A k \in DOMAIN devices : devices'[k] = devices[k]]_vars

\* A rescan has published the descriptor of device "B" on a wildcard slot
\* and nothing on the slot that asks for serial "A", which is not on the
\* bus.
C31_SerialSlotGetsNothing ==
    \E h \in DOMAIN devices, k \in DOMAIN devices :
       /\ devices[h].serial_number = None
       /\ watch[h].changed
       /\ IsSome(watch[h].val)
       /\ Unwrap(watch[h].val).serial = Some("B")
       /\ devices[k].serial_number = Some("A")
       /\ \A d \in attached : d.serial # Some("A")
       /\ watch[k] = NoWatch
       /\ hist.issued = <<k, h>>

\* C32: the inbound pump of a session enqueues a completed buffer only if
\* it decodes as a wire frame whose channel is below the n_channels the
\* device reported: no queue exists or holds anything for a channel >=
\* n_channels (n_channels itself included), every frame the pump enqueued
\* is a decoded frame of such a channel, and no read returns another.
C32_OnlyDecodedInRangeEnqueued ==
    \A h \in Handles :
       sess[h].host =>
          /\ \A c \in Channels : c >= Reported(h) => Queued(h, c) = <<>>
          /\ \A f \in Range(hist.log[h].pushed) :
                /\ f \in Range(hist.log[h].completed)
                /\ f.channel < Reported(h)
          /\ \A f \in Range(hist.log[h].read) : f.channel < Reported(h)

C34_IteratorRegistry ==
    /\ [](/\ DOMAIN iters.info_map \subseteq 0..(iters.next_idx - 1)
          /\ \A id \in IterIds :
                /\ rdxusb_free_device_iterator_ret(id) = 0
                /\ \A idx \in 0..3 :
                      rdxusb_get_device_in_iterator_ret(id, idx, "buf").ret =
                         IF id >= iters.next_idx \/ id \notin DOMAIN iters.info_map
                         THEN -102
                         ELSE IF idx >= Len(iters.info_map[id]) THEN -103 ELSE 0)
    /\ [][/\ iters'.next_idx >= iters.next_idx
          /\ \A id \in DOMAIN iters'.info_map :
                IF id \in DOMAIN iters.info_map
                THEN iters'.info_map[id] = iters.info_map[id]
                ELSE id = iters.next_idx /\ iters'.next_idx = id + 1
          /\ Cardinality(DOMAIN iters.info_map \ DOMAIN iters'.info_map) <= 1]_vars

\* Iterator 0 was freed and iterator 1 is in use: 0 answers -102, 1
\* answers 0 for index 1 and -103 for index 2, and no further id is free.
C34_FreedAndLive ==
    /\ iters.next_idx = 2
    /\ DOMAIN iters.info_map = {1}
    /\ rdxusb_get_device_in_iterator_ret(0, 0, "buf").ret = -102
    /\ rdxusb_get_device_in_iterator_ret(1, 1, "buf").ret = 0
    /\ rdxusb_get_device_in_iterator_ret(1, 2, "buf").ret = -103
    /\ rdxusb_get_device_in_iterator_ret(2, 0, "buf").ret = -102

\* C35: a poller that owns the mutex and is about to call
\* update_open_device(id, ..) or remove_open_device(id) finds slot id in
\* the registry, whatever close_device did meanwhile; so no poller has
\* panicked, the mutex is not poisoned, and no foreign call returns -100.
C35_SlotPresentAtInstallAndClear ==
    /\ \A h \in Handles :
          /\ poller[h].pc \in {"installing", "clearing"} => h \in DOMAIN devices
          /\ poller[h].pc # "panicked"
          /\ ReadResult(h, 0, 1).ret # ERR_EVENT_LOOP_CRASHED
          /\ close_device_ret(h) # ERR_EVENT_LOOP_CRASHED
    /\ ~poisoned

\* C36: every device on the bus matches at most one registered slot (a
\* wildcard slot and a slot with a serial number of the same vid and pid
\* do not coexist), so that a rescan has one slot to send each descriptor
\* to.
C36_AtMostOneSlotPerDevice ==
    /\ \A d \in attached : Cardinality(Matching(devices, d)) <= 1
    /\ \A h \in DOMAIN devices, k \in DOMAIN devices :
          (/\ h # k
           /\ devices[h].vid = devices[k].vid
           /\ devices[h].pid = devices[k].pid) =>
             /\ devices[h].serial_number # None
             /\ devices[k].serial_number # None

\* C37: an open_device call that returns a negative code (-100 on a
\* poisoned mutex, -101 when the enumeration of its rescan fails) leaves
\* the registry as it was: it inserts no slot, spawns no poller and does
\* not advance the handle counter.
C37_FailedOpenChangesNothing ==
    \A vid \in Vids, pid \in Pids, serial_number \in SerialArgs,
       close_on_dc \in BOOLEAN, list_ok \in BOOLEAN :
       (\A ret \in open_device_ret(vid, pid, serial_number, list_ok) : ret < 0) =>
          ~ENABLED (/\ open_device(vid, pid, serial_number, close_on_dc,
                                   TestBufSize, list_ok)
                    /\ \/ DOMAIN devices' # DOMAIN devices
                       \/ next_handle' # next_handle
                       \/ poller' # poller)

\* C38: the queues of a session belong to that session alone.  Every frame
\* read_packets has returned since the latest session of a slot was
\* installed completed on bulk-IN after that install, so no read returns a
\* frame an earlier session received; and the frames transmitted since that
\* install are, in order and each at most once, frames write_packets
\* accepted since that install, the frame in flight included.
C38_QueuesBelongToOneSession ==
    \A h \in Handles :
       LET log == hist.log[h] IN
       /\ log.got <= Len(log.read)
       /\ \A i \in (log.got + 1)..Len(log.read) :
             /\ log.read[i].timestamp_ns > log.epoch
             /\ \E j \in 1..Len(log.completed) :
                   log.completed[j].timestamp_ns = log.read[i].timestamp_ns
       /\ \A c \in Channels :
             \A i \in 1..Len(Queued(h, c)) : Queued(h, c)[i].timestamp_ns > log.epoch
       /\ NoDuplicates(log.sent)
       /\ IsSubseq(log.sent, log.accepted)
       /\ IsSome(sess[h].out_pkt) => Unwrap(sess[h].out_pkt) \in Range(log.accepted)
       /\ \A i \in 1..Len(sess[h].tx) : sess[h].tx[i] \in Range(log.accepted)

\* A second session is running: the first one ended with a received frame
\* still queued and with an accepted frame behind it, and the second has
\* delivered a frame of its own to a read and transmitted a frame of its
\* own.
C38_SecondSessionHasTraffic ==
    \E h \in DOMAIN devices :
       LET log == hist.log[h] IN
       /\ poller[h].pc = "running"
       /\ log.epoch > 0
       /\ log.lost # <<>>
       /\ Len(log.read) > log.got
       /\ hist.n_writes > Len(log.accepted)
       /\ log.sent # <<>>

\* Task t's pump holds a frame in a push().await.
Stalled(t) == IsSome(sess[t].in_pkt)

\* The queue the held frame of task t is waiting for.
HeldQueue(t) == sess[t].rx[Unwrap(sess[t].in_pkt).channel + 1]

\* C39: under await-on-full the pump handles one completion at a time.
\* While it holds a frame in a push, no step consumes a bulk-IN completion
\* (the completions waiting stay, in order, at the head of the pending
\* ones) and no queue of the session gains a frame, except that the held
\* frame itself is appended to its own queue once that queue has room.
\* As soon as the full queue has room the push can complete, and it does;
\* and on every channel the frames taken so far are, in order, those read,
\* those queued and the one held: the stall loses and reorders nothing.
C39_StallHoldsEveryChannel ==
    /\ [][\A t \in Tasks :
            Stalled(t) =>
               /\ Len(sess'[t].bulk_in) >= Len(sess[t].bulk_in)
               /\ SubSeq(sess'[t].bulk_in, 1, Len(sess[t].bulk_in)) = sess[t].bulk_in
               /\ \A i \in DOMAIN sess[t].rx :
                     \/ Len(sess'[t].rx[i]) <= Len(sess[t].rx[i])
                     \/ /\ i = Unwrap(sess[t].in_pkt).channel + 1
                        /\ ~IsFull(sess[t].rx[i], sess[t].rx_cap)
                        /\ sess'[t].rx[i] = Append(sess[t].rx[i], Unwrap(sess[t].in_pkt))
                        /\ sess'[t].in_pkt = None]_vars
    /\ [](\A t \in Tasks :
            /\ Stalled(t) =>
                  /\ sess[t].await_on_full
                  /\ (sess[t].chans /\ ~IsFull(HeldQueue(t), sess[t].rx_cap))
                        => ENABLED PollResume(t)
            /\ (sess[t].await_on_full /\ sess[t].chans) =>
                  \A c \in Channels :
                     c < Len(sess[t].rx) =>
                        Public(Polled(t, c)) =
                           OnChannel(hist.log[t].read, c)
                              \o Public(Queued(t, c) \o Held(t, c)))
    /\ \A t \in Tasks :
          (Stalled(t) /\ ~IsFull(HeldQueue(t), sess[t].rx_cap)) ~> ~Stalled(t)

\* The pump is suspended on the full queue of channel 0 while a frame of
\* channel 1 has completed and waits: the queue of channel 1 is empty.
C39_OtherChannelWaits ==
    \E t \in Tasks :
       /\ Stalled(t)
       /\ sess[t].chans
       /\ Unwrap(sess[t].in_pkt).channel = 0
       /\ IsFull(Queued(t, 0), sess[t].rx_cap)
       /\ Len(sess[t].rx) > 1
       /\ Queued(t, 1) = <<>>
       /\ \E i \in 1..Len(sess[t].bulk_in) :
             /\ sess[t].bulk_in[i].status = "ok"
             /\ sess[t].bulk_in[i].pkt.channel = 1

====
